---- MODULE Spec2Model ----
(***************************************************************************)
(* Economy simulator: the allocation engine.                               *)
(*                                                                         *)
(* A caller supplies a list of categories and a budget, selects one of the *)
(* registered allocation algorithms and calls its calculate method, which  *)
(* returns an AllocationResult.                                            *)
(*                                                                         *)
(* Numbers.  The program computes in IEEE doubles.  Here every real is a   *)
(* fixed-point integer counting hundredths (S = 100): price 1.5 is 150.    *)
(* necessityLevel is kept as a plain integer 1..10.  Infinity and NaN,     *)
(* which the program produces when it divides by a zero price, are the     *)
(* three sentinels Inf, -Inf and NaN.                                      *)
(***************************************************************************)
EXTENDS Integers, Sequences, FiniteSets, TLC

\* ------------------------------------------------------------------ bounds
\* Longest category list the caller supplies.
MaxCats == 2
\* Largest budget the caller supplies, in whole currency units.
MaxBudget == 6
\* Iterations after which a loop of the program is reported as not returning.
MaxLoop == 30

\* ----------------------------------------------------------------- numbers
S == 100
Inf == 2000000000
NaN == 0 - 2000000001
\* the JavaScript value null where the program stores it in a number variable
Null == 0 - 2000000002

IsFinite(x) == x # Inf /\ x # (0 - Inf) /\ x # NaN

\* a * b for finite fixed-point a, b
Mul(a, b) == (a * b) \div S

\* a / b as JavaScript computes it: a zero divisor gives Infinity or NaN
DivJS(a, b) ==
  IF b = 0
    THEN (IF a > 0 THEN Inf ELSE IF a < 0 THEN 0 - Inf ELSE NaN)
    ELSE (a * S) \div b

\* a - b where a and b may be infinite
SubJS(a, b) ==
  IF a = NaN \/ b = NaN THEN NaN
  ELSE IF a = Inf THEN (IF b = Inf THEN NaN ELSE Inf)
  ELSE IF a = 0 - Inf THEN (IF b = 0 - Inf THEN NaN ELSE 0 - Inf)
  ELSE IF b = Inf THEN 0 - Inf
  ELSE IF b = 0 - Inf THEN Inf
  ELSE a - b

\* x > y as JavaScript evaluates it: false when either side is NaN
Gt(x, y) == x # NaN /\ y # NaN /\ x > y

Min(a, b) == IF a <= b THEN a ELSE b
Max(a, b) == IF a >= b THEN a ELSE b

\* Math.floor and Math.ceil of a fixed-point number, as fixed-point numbers
Floor(x) == (x \div S) * S
Ceil(x) == ((x + S - 1) \div S) * S

\* acc * b^n by n multiplications, ten at a time while ten are left
RECURSIVE PowAcc(_, _, _)
PowAcc(acc, b, n) ==
  IF n = 0 \/ acc = 0 THEN acc
  ELSE IF n >= 10
    THEN PowAcc(Mul(Mul(Mul(Mul(Mul(Mul(Mul(Mul(Mul(Mul(acc, b), b), b), b),
                  b), b), b), b), b), b), b, n - 10)
  ELSE PowAcc(Mul(acc, b), b, n - 1)

\* b^n for a whole number n >= 0 (Math.pow(0, 0) is 1), by repeated
\* multiplication.  (1^n is 1; for b below 1 the product is below the grid
\* after S multiplications.)
PowInt(b, n) ==
  IF n = 0 \/ b = S THEN S
  ELSE IF n > S /\ b >= 0 /\ b < S THEN 0
  ELSE PowAcc(S, b, n)

\* Math.pow with the exponent truncated to its whole part
PowTruncatedExponent(b, x) == PowInt(b, x \div S)

\* Math.pow(b, x) for 0 <= b <= 1 and x >= 0: the whole part of the exponent
\* by repeated multiplication, the fractional part along the chord from b^0
\* to b^1.
Pow(b, x) ==
  LET n == x \div S
      f == x % S
      frac == IF f = 0 THEN S ELSE IF b = 0 THEN 0 ELSE S - Mul(f, S - b)
  IN Mul(PowInt(b, n), frac)

\* Math.pow(x, 1/n) for 0 <= x <= 1 and a whole number n >= 1: the largest
\* grid value whose n-th power does not exceed x.
RECURSIVE RootSearch(_, _, _, _)
RootSearch(x, n, lo, hi) ==
  IF lo >= hi THEN lo
  ELSE LET mid == (lo + hi + 1) \div 2
       IN IF PowInt(mid, n) <= x THEN RootSearch(x, n, mid, hi)
                                ELSE RootSearch(x, n, lo, mid - 1)

Root(x, n) == IF n = 1 THEN x ELSE RootSearch(x, n, 0, S)

\* const v = x; F(v): x is evaluated once
Bind(x, F(_)) == CHOOSE y \in { F(v) : v \in {x} } : TRUE

\* Sum of f[i] over i in 1..Len(f)
RECURSIVE SumTo(_, _)
SumTo(f, n) == IF n = 0 THEN 0 ELSE SumTo(f, n - 1) + f[n]
SumSeq(f) == SumTo(f, Len(f))

\* Array.prototype.sort: stable, a comparator result of NaN counts as 0.
\* An element's place is the number of elements the comparator puts before
\* it.  (For a comparator that is not a consistent order, which a NaN
\* comparison can cause, the order is implementation-defined; elements
\* with the same count then keep their array order.)
SortBy(seq, Cmp(_, _)) ==
  Bind(seq, LAMBDA s :
    LET n == Len(s)
        c(j, k) == LET v == Cmp(s[j], s[k]) IN IF v = NaN THEN 0 ELSE v
        before(j, k) == c(j, k) < 0 \/ (c(j, k) = 0 /\ j < k)
    IN Bind([k \in 1..n |->
               Cardinality({j \in 1..n : j # k /\ before(j, k)})],
         LAMBDA count :
           Bind([k \in 1..n |->
                   1 + Cardinality({j \in 1..n :
                         \/ count[j] < count[k]
                         \/ (count[j] = count[k] /\ j < k)})],
             LAMBDA rank :
               [i \in 1..n |-> s[CHOOSE k \in 1..n : rank[k] = i]])))

\* -------------------------------------------------------------- categories
Cat(nm, p, uf, bna, d, nl) ==
  [name |-> nm, price |-> p, utilityFactor |-> uf, basicNeedAmount |-> bna,
   diminishingFactor |-> d, necessityLevel |-> nl]

\* The categories a caller builds its lists from.
Catalogue ==
  { Cat("Shelter", 100, 100, 500, 50, 10),
    Cat("Luxury", 100, 5000, 100, 50, 1),
    Cat("Trinket", 100, 100, 0, 50, 1),
    Cat("Food", 300, 500, 100, 50, 10),
    Cat("Health", 200, 100, 100, 50, 10),
    Cat("Transport", 300, 100, 100, 50, 5),
    Cat("Phone", 200, 1000, 100, 100, 4),
    Cat("Air", 0, 100, 1000, 50, 4),
    Cat("Water", 50, 200, 250, 90, 10),
    Cat("Library", 0, 100, 100, 100, 2) }

Budgets == { b * S : b \in 0..MaxBudget }

\* ---------------------------------------------------------- utility function
calculateUtility(category, quantity) ==
  IF quantity = 0 /\ category.necessityLevel > 5
    THEN (0 - 1000) * category.necessityLevel * S
  ELSE IF quantity < category.basicNeedAmount
    THEN LET needSatisfactionRatio == DivJS(quantity, category.basicNeedAmount)
         IN Mul(Mul(category.utilityFactor * category.necessityLevel,
                    Root(needSatisfactionRatio, category.necessityLevel)),
                quantity)
  ELSE LET baseUtility ==
             Mul(category.utilityFactor * category.necessityLevel,
                 category.basicNeedAmount)
           excessQuantity == quantity - category.basicNeedAmount
           diminishedUtility ==
             Mul(Mul(excessQuantity, category.utilityFactor),
                 Pow(category.diminishingFactor, excessQuantity))
       IN baseUtility + diminishedUtility

NewAllocation(category) ==
  [category |-> category, quantity |-> 0, utility |-> 0, spent |-> 0]

NoMessage == [kind |-> "none", names |-> <<>>]

\* ------------------------------------------------- greedy marginal purchase
\* One scan of the allocations for the highest marginal utility per cost
\* among the categories whose price the remaining budget covers.
\* (variant: the scan keeps the first affordable category with a positive
\* marginal utility per cost)
RECURSIVE FindFirstPositive(_, _, _, _, _)
FindFirstPositive(allocations, remainingBudget, i, bestUtilityPerCost, bestIndex) ==
  IF i > Len(allocations)
    THEN [bestUtilityPerCost |-> bestUtilityPerCost, bestIndex |-> bestIndex]
  ELSE
    LET allocation == allocations[i]
        category == allocation.category
        currentUtility == calculateUtility(category, allocation.quantity)
        newUtility == calculateUtility(category, allocation.quantity + S)
        marginalUtility == newUtility - currentUtility
        utilityPerCost == DivJS(marginalUtility, category.price)
    IN IF category.price <= remainingBudget /\ bestIndex = 0
            /\ Gt(utilityPerCost, 0)
         THEN FindFirstPositive(allocations, remainingBudget, i + 1,
                                utilityPerCost, i)
         ELSE FindFirstPositive(allocations, remainingBudget, i + 1,
                                bestUtilityPerCost, bestIndex)

RECURSIVE FindBest(_, _, _, _, _)
FindBest(allocations, remainingBudget, i, bestUtilityPerCost, bestIndex) ==
  IF i > Len(allocations)
    THEN [bestUtilityPerCost |-> bestUtilityPerCost, bestIndex |-> bestIndex]
  ELSE
    LET allocation == allocations[i]
        category == allocation.category
        currentUtility == calculateUtility(category, allocation.quantity)
        newUtility == calculateUtility(category, allocation.quantity + S)
        marginalUtility == newUtility - currentUtility
        utilityPerCost == DivJS(marginalUtility, category.price)
    IN IF category.price <= remainingBudget
            /\ Gt(utilityPerCost, bestUtilityPerCost)
         THEN FindBest(allocations, remainingBudget, i + 1, utilityPerCost, i)
         ELSE FindBest(allocations, remainingBudget, i + 1,
                       bestUtilityPerCost, bestIndex)

\* (variant: the purchase is not added to the allocation's spent)
GreedyStepSpentForgotten(s) ==
  Bind(FindBest(s.allocations, s.remainingBudget, 1, 0, 0), LAMBDA best :
    IF best.bestIndex # 0 /\ Gt(best.bestUtilityPerCost, 0)
      THEN [allocations |->
              [s.allocations EXCEPT
                 ![best.bestIndex].quantity = @ + S,
                 ![best.bestIndex].utility =
                   calculateUtility(s.allocations[best.bestIndex].category,
                                    s.allocations[best.bestIndex].quantity + S)],
            remainingBudget |->
              s.remainingBudget - s.allocations[best.bestIndex].category.price,
            totalUtility |-> s.totalUtility,
            broke |-> FALSE]
      ELSE [s EXCEPT !.broke = TRUE])

\* One iteration of the loop "while (remainingBudget > 0)": buys one unit of
\* the best category, or breaks when no purchase has a positive marginal
\* utility per cost.
GreedyStep(s) ==
  Bind(FindBest(s.allocations, s.remainingBudget, 1, 0, 0), LAMBDA best :
    IF best.bestIndex # 0 /\ Gt(best.bestUtilityPerCost, 0)
      THEN LET allocation == s.allocations[best.bestIndex]
               category == allocation.category
               quantity == allocation.quantity + S
               newUtility == calculateUtility(category, quantity)
               utilityGain == newUtility - allocation.utility
               bought == [allocation EXCEPT
                            !.quantity = quantity,
                            !.spent = allocation.spent + category.price,
                            !.utility = newUtility]
           IN [allocations |-> [s.allocations EXCEPT ![best.bestIndex] = bought],
               remainingBudget |-> s.remainingBudget - category.price,
               totalUtility |-> s.totalUtility + utilityGain,
               broke |-> FALSE]
      ELSE [s EXCEPT !.broke = TRUE])

\* The iterations of the loop from the state s.  returned is FALSE when the
\* loop is still buying after MaxLoop iterations.
RECURSIVE GreedyIterate(_, _)
GreedyIterate(s, iter) ==
  IF s.broke \/ ~(s.remainingBudget > 0)
    THEN [allocations |-> s.allocations,
          remainingBudget |-> s.remainingBudget,
          totalUtility |-> s.totalUtility, returned |-> TRUE]
  ELSE IF iter >= MaxLoop
    THEN [allocations |-> s.allocations,
          remainingBudget |-> s.remainingBudget,
          totalUtility |-> s.totalUtility, returned |-> FALSE]
  ELSE GreedyIterate(GreedyStep(s), iter + 1)

\* The loop "while (remainingBudget > 0)": buys one unit of the best category
\* per iteration, stops when no purchase has positive marginal utility per
\* cost.
GreedyLoop(allocations, remainingBudget, totalUtility, iter) ==
  GreedyIterate([allocations |-> allocations,
                 remainingBudget |-> remainingBudget,
                 totalUtility |-> totalUtility, broke |-> FALSE], iter)

\* The names of the allocations with quantity below the basic need and a
\* necessity level above the threshold.
UnmetNeeds(allocations, threshold) ==
  LET unmet == SelectSeq(allocations,
                 LAMBDA a : a.quantity < a.category.basicNeedAmount
                            /\ a.category.necessityLevel > threshold)
  IN [i \in 1..Len(unmet) |-> unmet[i].category.name]

\* message of the three greedy strategies
GreedyMessage(allocations, totalSpent, budget, threshold) ==
  LET needsList == UnmetNeeds(allocations, threshold)
  IN IF Len(needsList) > 0 THEN [kind |-> "unmet", names |-> needsList]
     ELSE IF totalSpent < budget THEN [kind |-> "remaining", names |-> <<>>]
     ELSE NoMessage

\* ------------------------------------------------------- Priority Necessity
\* (variant: utility-to-price ratio only, necessity level not compared)
NecessityOrderRatioOnly(a, b) ==
  SubJS(DivJS(b.utilityFactor, b.price), DivJS(a.utilityFactor, a.price))

NecessityOrder(a, b) ==
  IF b.necessityLevel # a.necessityLevel
    THEN (b.necessityLevel - a.necessityLevel) * S
    ELSE SubJS(DivJS(b.utilityFactor, b.price), DivJS(a.utilityFactor, a.price))

\* (variant: the needs pass buys one unit at most)
BuyBasicNeedOnce(allocation, remainingBudget) ==
  IF allocation.quantity < allocation.category.basicNeedAmount
       /\ remainingBudget >= allocation.category.price
    THEN [allocation |->
            [allocation EXCEPT !.quantity = @ + S,
                               !.spent = @ + allocation.category.price],
          remainingBudget |-> remainingBudget - allocation.category.price]
    ELSE [allocation |-> allocation, remainingBudget |-> remainingBudget]

\* (variant: the needs pass buys while the budget covers the price, past
\* the basic need)
RECURSIVE BuyBasicNeedUncapped(_, _)
BuyBasicNeedUncapped(allocation, remainingBudget) ==
  IF remainingBudget >= allocation.category.price
    THEN BuyBasicNeedUncapped(
           [allocation EXCEPT !.quantity = @ + S,
                              !.spent = @ + allocation.category.price],
           remainingBudget - allocation.category.price)
    ELSE [allocation |-> allocation, remainingBudget |-> remainingBudget]

\* the inner loop of the needs pass: whole units up to the basic need
RECURSIVE BuyBasicNeed(_, _)
BuyBasicNeed(allocation, remainingBudget) ==
  IF allocation.quantity < allocation.category.basicNeedAmount
       /\ remainingBudget >= allocation.category.price
    THEN BuyBasicNeed(
           [allocation EXCEPT !.quantity = @ + S,
                              !.spent = @ + allocation.category.price],
           remainingBudget - allocation.category.price)
    ELSE [allocation |-> allocation, remainingBudget |-> remainingBudget]

RECURSIVE NeedsPass(_, _, _, _, _)
NeedsPass(sortedCategories, i, remainingBudget, allocations, totalUtility) ==
  IF i > Len(sortedCategories)
    THEN [allocations |-> allocations, remainingBudget |-> remainingBudget,
          totalUtility |-> totalUtility]
  ELSE
    LET category == sortedCategories[i]
    IN IF category.price <= 0
         THEN NeedsPass(sortedCategories, i + 1, remainingBudget, allocations,
                        totalUtility)
         ELSE Bind(BuyBasicNeed(NewAllocation(category), remainingBudget),
                LAMBDA bought :
                  LET utility ==
                        calculateUtility(category, bought.allocation.quantity)
                  IN NeedsPass(sortedCategories, i + 1,
                       bought.remainingBudget,
                       Append(allocations,
                              [bought.allocation EXCEPT !.utility = utility]),
                       totalUtility + utility))

\* (variant: the copy is left in input order)
PrioritySortSkipped(categories) ==
  [input |-> categories, sorted |-> categories]

\* (variant: categories.sort(...) without the copy sorts the input array)
PrioritySortInPlace(categories) ==
  [input |-> SortBy(categories, NecessityOrder),
   sorted |-> SortBy(categories, NecessityOrder)]

\* const sortedCategories = [...categories].sort(...): the copy is sorted,
\* the array passed in is left as it is
PrioritySort(categories) ==
  [input |-> categories, sorted |-> SortBy(categories, NecessityOrder)]

PriorityNecessity(categories, budget) ==
  Bind(PrioritySort(categories), LAMBDA sortedCategories :
  Bind(NeedsPass(sortedCategories.sorted, 1, budget, <<>>, 0), LAMBDA first :
  Bind(GreedyLoop(first.allocations, first.remainingBudget,
                  first.totalUtility, 0), LAMBDA second :
    LET totalSpent == budget - second.remainingBudget
    IN [categories |-> sortedCategories.input,
        returned |-> second.returned,
        allocations |-> second.allocations,
        totalUtility |-> second.totalUtility,
        totalSpent |-> totalSpent,
        message |-> GreedyMessage(second.allocations, totalSpent, budget, 3)])))

\* ------------------------------ economy-model: calculateOptimalSpending
\* The function of the same name that economy-model.ts exports, translated
\* from its own text.
economyModelOrder(a, b) ==
  IF b.necessityLevel # a.necessityLevel
    THEN (b.necessityLevel - a.necessityLevel) * S
    ELSE SubJS(DivJS(b.utilityFactor, b.price), DivJS(a.utilityFactor, a.price))

\* while (allocation.quantity < category.basicNeedAmount &&
\*        remainingBudget >= category.price)
RECURSIVE economyModelBuyUnits(_, _)
economyModelBuyUnits(allocation, remainingBudget) ==
  IF ~(allocation.quantity < allocation.category.basicNeedAmount)
       \/ ~(remainingBudget >= allocation.category.price)
    THEN [allocation |-> allocation, remainingBudget |-> remainingBudget]
  ELSE economyModelBuyUnits(
         [category |-> allocation.category,
          quantity |-> allocation.quantity + 1 * S,
          utility |-> allocation.utility,
          spent |-> allocation.spent + allocation.category.price],
         remainingBudget - allocation.category.price)

\* one turn of "for (const category of sortedCategories)"
economyModelTurn(category, s) ==
  IF category.price <= 0 THEN s
  ELSE Bind(economyModelBuyUnits(
              [category |-> category, quantity |-> 0, utility |-> 0, spent |-> 0],
              s.remainingBudget),
         LAMBDA turn :
           Bind(calculateUtility(category, turn.allocation.quantity),
             LAMBDA utility :
               [allocations |->
                  Append(s.allocations,
                         [turn.allocation EXCEPT !.utility = utility]),
                remainingBudget |-> turn.remainingBudget,
                totalUtility |-> s.totalUtility + utility]))

RECURSIVE economyModelFirstPass(_, _, _)
economyModelFirstPass(sortedCategories, i, s) ==
  IF i > Len(sortedCategories) THEN s
  ELSE economyModelFirstPass(sortedCategories, i + 1,
                             economyModelTurn(sortedCategories[i], s))

\* utilityPerCost of allocations[i], as the scan of the second pass computes it
economyModelUtilityPerCost(allocation) ==
  DivJS(calculateUtility(allocation.category, allocation.quantity + 1 * S)
          - calculateUtility(allocation.category, allocation.quantity),
        allocation.category.price)

\* "for (let i = 0; i < allocations.length; i++)": bestIndex is -1 at the
\* start and the index (from 0) of the best category after it
RECURSIVE economyModelScan(_, _, _, _)
economyModelScan(s, i, bestUtilityPerCost, bestIndex) ==
  IF i >= Len(s.allocations)
    THEN [bestUtilityPerCost |-> bestUtilityPerCost, bestIndex |-> bestIndex]
  ELSE IF s.allocations[i + 1].category.price <= s.remainingBudget
            /\ Gt(economyModelUtilityPerCost(s.allocations[i + 1]),
                  bestUtilityPerCost)
    THEN economyModelScan(s, i + 1,
                          economyModelUtilityPerCost(s.allocations[i + 1]), i)
  ELSE economyModelScan(s, i + 1, bestUtilityPerCost, bestIndex)

\* (variant: the unit is bought for the category the scan looked at last)
economyModelPurchaseLast(s) ==
  Bind(economyModelScan(s, 0, 0, 0 - 1), LAMBDA best :
    IF best.bestIndex = 0 - 1 \/ ~Gt(best.bestUtilityPerCost, 0)
      THEN [s EXCEPT !.stopped = TRUE]
    ELSE
      Bind(s.allocations[Len(s.allocations)], LAMBDA allocation :
      Bind(calculateUtility(allocation.category, allocation.quantity + 1 * S),
        LAMBDA newUtility :
          [allocations |->
             [s.allocations EXCEPT ![Len(s.allocations)] =
                [category |-> allocation.category,
                 quantity |-> allocation.quantity + 1 * S,
                 utility |-> newUtility,
                 spent |-> allocation.spent + allocation.category.price]],
           remainingBudget |-> s.remainingBudget - allocation.category.price,
           totalUtility |-> s.totalUtility + (newUtility - allocation.utility),
           stopped |-> FALSE, returned |-> FALSE])))

\* the body of "while (remainingBudget > 0)"
economyModelPurchase(s) ==
  Bind(economyModelScan(s, 0, 0, 0 - 1), LAMBDA best :
    IF best.bestIndex = 0 - 1 \/ ~Gt(best.bestUtilityPerCost, 0)
      THEN [s EXCEPT !.stopped = TRUE]
    ELSE
      Bind(s.allocations[best.bestIndex + 1], LAMBDA allocation :
      Bind(calculateUtility(allocation.category, allocation.quantity + 1 * S),
        LAMBDA newUtility :
          [allocations |->
             [s.allocations EXCEPT ![best.bestIndex + 1] =
                [category |-> allocation.category,
                 quantity |-> allocation.quantity + 1 * S,
                 utility |-> newUtility,
                 spent |-> allocation.spent + allocation.category.price]],
           remainingBudget |-> s.remainingBudget - allocation.category.price,
           totalUtility |-> s.totalUtility + (newUtility - allocation.utility),
           stopped |-> FALSE, returned |-> FALSE])))

\* returned is FALSE when the loop is still buying after MaxLoop iterations
RECURSIVE economyModelSecondPass(_, _)
economyModelSecondPass(s, iter) ==
  IF s.stopped \/ ~(s.remainingBudget > 0) THEN [s EXCEPT !.returned = TRUE]
  ELSE IF iter >= MaxLoop THEN s
  ELSE economyModelSecondPass(economyModelPurchase(s), iter + 1)

economyModelMessage(allocations, totalSpent, budget) ==
  Bind(SelectSeq(allocations,
                 LAMBDA a : a.quantity < a.category.basicNeedAmount
                            /\ a.category.necessityLevel > 3),
    LAMBDA unmetNeeds :
      IF Len(unmetNeeds) > 0
        THEN [kind |-> "unmet",
              names |-> [i \in 1..Len(unmetNeeds) |-> unmetNeeds[i].category.name]]
      ELSE IF totalSpent < budget THEN [kind |-> "remaining", names |-> <<>>]
      ELSE [kind |-> "none", names |-> <<>>])

economyModelCalculateOptimalSpending(categories, budget) ==
  Bind(economyModelFirstPass(
         SortBy(categories, economyModelOrder), 1,
         [allocations |-> <<>>, remainingBudget |-> budget, totalUtility |-> 0]),
    LAMBDA first :
  Bind(economyModelSecondPass(
         [allocations |-> first.allocations,
          remainingBudget |-> first.remainingBudget,
          totalUtility |-> first.totalUtility,
          stopped |-> FALSE, returned |-> FALSE], 0),
    LAMBDA second :
      [returned |-> second.returned,
       allocations |-> second.allocations,
       totalUtility |-> second.totalUtility,
       totalSpent |-> budget - second.remainingBudget,
       message |-> economyModelMessage(second.allocations,
                                       budget - second.remainingBudget,
                                       budget)]))

\* ------------------------------------------------------------ Pure Utility
SpentOrder(a, b) == b.spent - a.spent

PureUtility(categories, budget) ==
  LET allocations == [i \in 1..Len(categories) |-> NewAllocation(categories[i])]
  IN Bind(GreedyLoop(allocations, budget, 0, 0), LAMBDA loop :
       LET totalSpent == budget - loop.remainingBudget
       IN [categories |-> categories,
           returned |-> loop.returned,
           allocations |-> SortBy(loop.allocations, SpentOrder),
           totalUtility |-> loop.totalUtility,
           totalSpent |-> totalSpent,
           message |->
             GreedyMessage(loop.allocations, totalSpent, budget, 3)])

\* -------------------------------------------------------- Balanced Approach
basicNeedsBudgetRatio == 60

NecessityThenSpentOrder(a, b) ==
  IF b.category.necessityLevel - a.category.necessityLevel # 0
    THEN (b.category.necessityLevel - a.category.necessityLevel) * S
    ELSE b.spent - a.spent

\* (variant: each category may use all that is left of the basic-needs
\* budget, whatever its necessity level)
RECURSIVE BasicNeedsPhaseWholePool(_, _, _, _, _)
BasicNeedsPhaseWholePool(sortedIndices, k, allocations, remainingBasicBudget, totalUtility) ==
  IF k > Len(sortedIndices)
    THEN [allocations |-> allocations,
          remainingBasicBudget |-> remainingBasicBudget,
          totalUtility |-> totalUtility]
  ELSE
    LET index == sortedIndices[k]
        allocation == allocations[index]
        category == allocation.category
        affordableUnits == Floor(DivJS(remainingBasicBudget, category.price))
        unitsToBuy == Min(affordableUnits, category.basicNeedAmount)
        spent == Mul(unitsToBuy, category.price)
        utility == calculateUtility(category, unitsToBuy)
    IN IF category.price <= 0 \/ ~(unitsToBuy > 0)
         THEN BasicNeedsPhaseWholePool(sortedIndices, k + 1, allocations,
                                       remainingBasicBudget, totalUtility)
         ELSE BasicNeedsPhaseWholePool(sortedIndices, k + 1,
                [allocations EXCEPT ![index] =
                   [allocation EXCEPT !.quantity = unitsToBuy,
                                      !.spent = spent,
                                      !.utility = utility]],
                remainingBasicBudget - spent, totalUtility + utility)

\* Phase 1: each category, in descending necessity, may use necessityLevel/10
\* of what is left of the basic-needs budget, in whole units up to its basic
\* need.
RECURSIVE BasicNeedsPhase(_, _, _, _, _)
BasicNeedsPhase(sortedIndices, k, allocations, remainingBasicBudget, totalUtility) ==
  IF k > Len(sortedIndices)
    THEN [allocations |-> allocations,
          remainingBasicBudget |-> remainingBasicBudget,
          totalUtility |-> totalUtility]
  ELSE
    LET index == sortedIndices[k]
        allocation == allocations[index]
        category == allocation.category
        necessityRatio == (category.necessityLevel * S) \div 10
        categoryBasicBudget == Mul(remainingBasicBudget, necessityRatio)
        affordableUnits == Floor(DivJS(categoryBasicBudget, category.price))
        unitsToBuy == Min(affordableUnits, category.basicNeedAmount)
        spent == Mul(unitsToBuy, category.price)
        utility == calculateUtility(category, unitsToBuy)
    IN IF category.price <= 0 \/ ~(unitsToBuy > 0)
         THEN BasicNeedsPhase(sortedIndices, k + 1, allocations,
                              remainingBasicBudget, totalUtility)
         ELSE BasicNeedsPhase(sortedIndices, k + 1,
                [allocations EXCEPT ![index] =
                   [allocation EXCEPT !.quantity = unitsToBuy,
                                      !.spent = spent,
                                      !.utility = utility]],
                remainingBasicBudget - spent, totalUtility + utility)

BalancedApproach(categories, budget) ==
  LET basicNeedsBudget == Mul(budget, basicNeedsBudgetRatio)
      allocations == [i \in 1..Len(categories) |-> NewAllocation(categories[i])]
      sortedIndices ==
        SortBy([i \in 1..Len(categories) |-> i],
               LAMBDA a, b : (categories[b].necessityLevel
                              - categories[a].necessityLevel) * S)
  IN Bind(BasicNeedsPhase(sortedIndices, 1, allocations, basicNeedsBudget, 0),
       LAMBDA phase1 :
     Bind(GreedyLoop(phase1.allocations,
                     (budget - basicNeedsBudget) + phase1.remainingBasicBudget,
                     phase1.totalUtility, 0),
       LAMBDA phase2 :
         LET totalSpent == budget - phase2.remainingBudget
         IN [categories |-> categories,
             returned |-> phase2.returned,
             allocations |->
               SortBy(phase2.allocations, NecessityThenSpentOrder),
             totalUtility |-> phase2.totalUtility,
             totalSpent |-> totalSpent,
             message |->
               GreedyMessage(phase2.allocations, totalSpent, budget, 5)]))

\* --------------------------------------------------------- pair programming
UtilityPerBudgetOrder(a, b) ==
  SubJS(DivJS(b.category.utilityFactor, b.category.price),
        DivJS(a.category.utilityFactor, a.category.price))

ScaffoldMessage == [kind |-> "scaffold", names |-> <<>>]

RECURSIVE BuyOneEach(_, _, _, _)
BuyOneEach(allocations, i, remainingBudget, totalUtility) ==
  IF i > Len(allocations)
    THEN [allocations |-> allocations, remainingBudget |-> remainingBudget,
          totalUtility |-> totalUtility]
  ELSE
    LET allocation == allocations[i]
        category == allocation.category
        utility == calculateUtility(category, S)
    IN IF category.price <= remainingBudget
         THEN BuyOneEach(
                [allocations EXCEPT ![i] =
                   [allocation EXCEPT !.quantity = S,
                                      !.spent = category.price,
                                      !.utility = utility]],
                i + 1, remainingBudget - category.price,
                totalUtility + utility)
         ELSE BuyOneEach(allocations, i + 1, remainingBudget, totalUtility)

PairProgramming(categories, budget) ==
  LET allocations == [i \in 1..Len(categories) |-> NewAllocation(categories[i])]
  IN Bind(SortBy(allocations, UtilityPerBudgetOrder),
       LAMBDA sortedByUtilityPerBudget :
     Bind(BuyOneEach(sortedByUtilityPerBudget, 1, budget, 0), LAMBDA loop :
       [categories |-> categories,
        returned |-> TRUE,
        allocations |-> loop.allocations,
        totalUtility |-> loop.totalUtility,
        totalSpent |-> budget - loop.remainingBudget,
        message |-> ScaffoldMessage]))

\* --------------------------------------------------------------------- blur
RECURSIVE BlurLoop(_, _, _, _)
BlurLoop(allocations, i, remainingBudget, totalUtility) ==
  IF i > Len(allocations)
    THEN [allocations |-> allocations, remainingBudget |-> remainingBudget,
          totalUtility |-> totalUtility]
  ELSE
    LET allocation == allocations[i]
        category == allocation.category
        need == Mul(category.price, category.basicNeedAmount)
        share == DivJS(remainingBudget, need)
        canAffordRatio == IF share # NaN /\ share <= S THEN share ELSE S
        quantity == Mul(category.basicNeedAmount, canAffordRatio)
        spent == Mul(need, canAffordRatio)
        utility ==
          Mul(Mul(category.utilityFactor, category.basicNeedAmount),
              canAffordRatio)
    IN IF category.price <= remainingBudget
         THEN BlurLoop(
                [allocations EXCEPT ![i] =
                   [allocation EXCEPT !.quantity = quantity,
                                      !.spent = spent,
                                      !.utility = utility]],
                i + 1, remainingBudget - spent,
                totalUtility
                  + Mul(Mul(utility, category.basicNeedAmount), canAffordRatio))
         ELSE BlurLoop(allocations, i + 1, remainingBudget, totalUtility)

Blur(categories, budget) ==
  LET allocations == [i \in 1..Len(categories) |-> NewAllocation(categories[i])]
  IN Bind(SortBy(allocations, UtilityPerBudgetOrder),
       LAMBDA sortedByUtilityPerBudget :
     Bind(BlurLoop(sortedByUtilityPerBudget, 1, budget, 0), LAMBDA loop :
       [categories |-> categories,
        returned |-> TRUE,
        allocations |-> loop.allocations,
        totalUtility |-> loop.totalUtility,
        totalSpent |-> budget - loop.remainingBudget,
        message |-> ScaffoldMessage]))

\* ------------------------------------------------------- simple proportions
RECURSIVE ProportionsLoop(_, _, _, _, _, _)
ProportionsLoop(allocations, i, budget, remainingBudget, totalSpent, totalUtility) ==
  IF i > Len(allocations)
    THEN [allocations |-> allocations, totalSpent |-> totalSpent,
          totalUtility |-> totalUtility]
  ELSE
    LET allocation == allocations[i]
        category == allocation.category
        spent ==
          Mul(budget,
              DivJS(Mul(category.utilityFactor, category.basicNeedAmount),
                    category.price))
        quantity == DivJS(spent, category.price)
        utility == Mul(quantity, category.utilityFactor)
    IN IF category.price = 0 \/ category.utilityFactor = 0
         THEN ProportionsLoop(
                [allocations EXCEPT ![i] =
                   [allocation EXCEPT !.quantity = category.basicNeedAmount]],
                i + 1, budget, remainingBudget, totalSpent, totalUtility)
       ELSE IF category.price <= remainingBudget
         THEN ProportionsLoop(
                [allocations EXCEPT ![i] =
                   [allocation EXCEPT !.quantity = quantity,
                                      !.spent = spent,
                                      !.utility = utility]],
                i + 1, budget, remainingBudget - category.price,
                totalSpent + spent, totalUtility + utility)
       ELSE ProportionsLoop(allocations, i + 1, budget, remainingBudget,
                            totalSpent, totalUtility)

SimpleProportions(categories, budget) ==
  LET allocations == [i \in 1..Len(categories) |-> NewAllocation(categories[i])]
  IN Bind(ProportionsLoop(allocations, 1, budget, budget, 0, 0), LAMBDA loop :
       [categories |-> categories,
        returned |-> TRUE,
        allocations |-> loop.allocations,
        totalUtility |-> loop.totalUtility,
        totalSpent |-> loop.totalSpent,
        message |-> ScaffoldMessage])

\* ------------------------------------------ Flat Time Pure Utility Maximizer
levels == <<25, 50, 75, 85, 95, 100>>

\* calculateMarginalUtility of flat-time-utility-maximiser: linear up to the
\* basic need, steeply diminishing beyond it
calculateMarginalUtility(category, quantity) ==
  LET f == category.utilityFactor
      b == IF category.basicNeedAmount # 0 THEN category.basicNeedAmount ELSE S
      d == IF category.diminishingFactor # 0 THEN category.diminishingFactor
           ELSE 50
      baseUtility == Mul(f, b)
      excessRatio == DivJS(quantity - b, b)
      diminishingFactor == Pow(d, excessRatio * 3)
      excessPenalty == DivJS(S, S + excessRatio)
  IN IF quantity <= 0 THEN 0
     ELSE IF quantity <= b THEN Mul(f, quantity)
     ELSE baseUtility
          + Mul(Mul(Mul(f, quantity - b), diminishingFactor), excessPenalty)

\* the purchase options of one category: one per level, in level order
OptionsOf(categories, cat) ==
  LET originalIndex == CHOOSE i \in 1..Len(categories) : categories[i] = cat
      basicNeedAmount ==
        IF cat.basicNeedAmount # 0 THEN cat.basicNeedAmount ELSE S
      option(l) ==
        LET quantity == Mul(basicNeedAmount, levels[l])
            prevLevel == IF l > 1 THEN levels[l - 1] ELSE 0
            prevQuantity == Mul(basicNeedAmount, prevLevel)
            marginalUtility == calculateMarginalUtility(cat, quantity)
                               - calculateMarginalUtility(cat, prevQuantity)
            incrementCost == Mul(cat.price, quantity - prevQuantity)
        IN [index |-> originalIndex, quantity |-> quantity - prevQuantity,
            utilityPerDollar |-> DivJS(marginalUtility, incrementCost),
            totalCost |-> incrementCost]
  IN SelectSeq([l \in 1..Len(levels) |-> option(l)],
               LAMBDA o : ~(o.totalCost <= 0))

RECURSIVE AllOptions(_, _, _)
AllOptions(categories, validCategories, i) ==
  IF i > Len(validCategories) THEN <<>>
  ELSE OptionsOf(categories, validCategories[i])
       \o AllOptions(categories, validCategories, i + 1)

\* Step 2 with the fraction forgotten: the option that does not fit is taken
\* whole for what is left of the budget
RECURSIVE TakeOptionsWhole(_, _, _, _, _, _)
TakeOptionsWhole(purchaseOptions, k, budget, quantities, spentAmounts, totalSpent) ==
  IF k > Len(purchaseOptions)
    THEN [quantities |-> quantities, spentAmounts |-> spentAmounts,
          totalSpent |-> totalSpent]
  ELSE
    LET option == purchaseOptions[k]
        remainingBudget == budget - totalSpent
    IN IF totalSpent + option.totalCost <= budget
         THEN TakeOptionsWhole(purchaseOptions, k + 1, budget,
                [quantities EXCEPT ![option.index] = @ + option.quantity],
                [spentAmounts EXCEPT ![option.index] = @ + option.totalCost],
                totalSpent + option.totalCost)
         ELSE [quantities |->
                 [quantities EXCEPT ![option.index] = @ + option.quantity],
               spentAmounts |->
                 [spentAmounts EXCEPT ![option.index] = @ + remainingBudget],
               totalSpent |-> budget]

\* Step 2: take the sorted options while they fit, the first that does not
\* fit in part, then stop
RECURSIVE TakeOptions(_, _, _, _, _, _)
TakeOptions(purchaseOptions, k, budget, quantities, spentAmounts, totalSpent) ==
  IF k > Len(purchaseOptions)
    THEN [quantities |-> quantities, spentAmounts |-> spentAmounts,
          totalSpent |-> totalSpent]
  ELSE
    LET option == purchaseOptions[k]
        remainingBudget == budget - totalSpent
        fractionAffordable == DivJS(remainingBudget, option.totalCost)
    IN IF totalSpent + option.totalCost <= budget
         THEN TakeOptions(purchaseOptions, k + 1, budget,
                [quantities EXCEPT ![option.index] = @ + option.quantity],
                [spentAmounts EXCEPT ![option.index] = @ + option.totalCost],
                totalSpent + option.totalCost)
         ELSE [quantities |->
                 [quantities EXCEPT ![option.index] =
                    @ + Mul(option.quantity, fractionAffordable)],
               spentAmounts |->
                 [spentAmounts EXCEPT ![option.index] = @ + remainingBudget],
               totalSpent |-> budget]

FlatTimeUtilityMaximisation(categories, budget) ==
  LET n == Len(categories)
      validCategories == SelectSeq(categories, LAMBDA cat : cat.price > 0)
      free(i) == categories[i].price <= 0 /\ categories[i].basicNeedAmount # 0
  IN IF n = 0 \/ budget <= 0
       THEN [categories |-> categories, returned |-> TRUE,
             allocations |-> <<>>, totalUtility |-> 0, totalSpent |-> 0,
             message |-> [kind |-> "no input", names |-> <<>>]]
     ELSE IF Len(validCategories) = 0
       THEN [categories |-> categories, returned |-> TRUE,
             allocations |-> [i \in 1..n |-> NewAllocation(categories[i])],
             totalUtility |-> 0, totalSpent |-> 0,
             message |-> [kind |-> "no valid categories", names |-> <<>>]]
     ELSE
       Bind(SortBy(AllOptions(categories, validCategories, 1),
                   LAMBDA a, b : b.utilityPerDollar - a.utilityPerDollar),
         LAMBDA purchaseOptions :
       Bind(TakeOptions(purchaseOptions, 1, budget, [i \in 1..n |-> 0],
                        [i \in 1..n |-> 0], 0),
         LAMBDA taken :
       Bind([i \in 1..n |-> IF free(i) THEN categories[i].basicNeedAmount
                            ELSE taken.quantities[i]],
         LAMBDA quantities :
       Bind([i \in 1..n |-> IF free(i) THEN 0 ELSE taken.spentAmounts[i]],
         LAMBDA spentAmounts :
         LET allocations ==
               [i \in 1..n |->
                  [category |-> categories[i], quantity |-> quantities[i],
                   utility |-> Mul(categories[i].utilityFactor, quantities[i]),
                   spent |-> spentAmounts[i]]]
             totalUtility ==
               SumSeq([i \in 1..n |->
                  IF quantities[i] > 0
                    THEN calculateMarginalUtility(categories[i], quantities[i])
                    ELSE 0])
         IN [categories |-> categories, returned |-> TRUE,
             allocations |-> SortBy(allocations, SpentOrder),
             totalUtility |-> totalUtility,
             totalSpent |-> taken.totalSpent,
             message |-> IF taken.totalSpent < Mul(budget, 99)
                           THEN [kind |-> "remaining", names |-> <<>>]
                           ELSE NoMessage]))))

\* ---------------------------------------------- marginal utility strategies
\* Math.exp(-q)
EInv == 37
ExpNeg(q) == Pow(EInv, q)

\* "bang per buck": null (Null) or 0 for a category without basic need or
\* without a finite utilityFactor / price
BangPerBuck(cat, invalid) ==
  IF cat.basicNeedAmount = 0
       \/ ~IsFinite(DivJS(cat.utilityFactor, cat.price))
    THEN invalid
    ELSE DivJS(cat.utilityFactor, cat.price)

\* (variant: null in a sum gives NaN, as undefined does)
NumUndefined(x) == IF x = Null THEN NaN ELSE x

\* a number that may be null, used as a number
Num(x) == IF x = Null THEN 0 ELSE x

MarginalUtility(categories, budget) ==
  LET n == Len(categories)
      ratios == [i \in 1..n |-> BangPerBuck(categories[i], Null)]
      totalRatio == SumSeq([i \in 1..n |-> Num(ratios[i])])
      initAllocations ==
        [i \in 1..n |->
           IF ratios[i] = Null THEN 0
           ELSE DivJS(Mul(DivJS(ratios[i], totalRatio), budget),
                      categories[i].price)]
      saturated == [i \in 1..n |->
                      initAllocations[i] >= categories[i].basicNeedAmount]
      saturatedSpent ==
        SumSeq([i \in 1..n |->
                  IF saturated[i]
                    THEN Mul(categories[i].price, categories[i].basicNeedAmount)
                    ELSE 0])
      remainingBudget == budget - saturatedSpent
      totalUnsatRatio ==
        SumSeq([i \in 1..n |-> IF saturated[i] THEN 0 ELSE Num(ratios[i])])
      allocation(i) ==
        LET cat == categories[i]
            share == Mul(DivJS(ratios[i], totalUnsatRatio),
                         DivJS(remainingBudget, cat.price))
            quantity == Min(IF saturated[i] THEN cat.basicNeedAmount ELSE share,
                            cat.basicNeedAmount)
        IN IF ratios[i] = Null
             THEN [category |-> cat, quantity |-> cat.basicNeedAmount,
                   spent |-> Mul(cat.price, cat.basicNeedAmount),
                   utility |-> Mul(cat.utilityFactor, cat.basicNeedAmount)]
             ELSE [category |-> cat, quantity |-> quantity,
                   spent |-> Mul(quantity, cat.price),
                   utility |-> Mul(cat.utilityFactor, S - ExpNeg(quantity))]
      allocations == [i \in 1..n |-> allocation(i)]
  IN [categories |-> categories, returned |-> TRUE,
      allocations |-> allocations,
      totalUtility |-> SumSeq([i \in 1..n |-> allocations[i].utility]),
      totalSpent |-> SumSeq([i \in 1..n |-> allocations[i].spent]),
      message |-> NoMessage]

\* The three passes shared by "optimised marginal utility" and its
\* "budget fix" variant; invalid is what the second pass stores as the ratio
\* of a category without a valid ratio (0, or null in the variant).
ThreePasses(categories, budget, invalid) ==
  LET n == Len(categories)
      ratio1 == [i \in 1..n |-> BangPerBuck(categories[i], 0)]
      totalRatio == SumSeq(ratio1)
      initAlloc ==
        [i \in 1..n |->
           IF ratio1[i] # 0
             THEN Mul(DivJS(ratio1[i], totalRatio),
                      DivJS(budget, categories[i].price))
             ELSE 0]
      isSaturated(i) == initAlloc[i] >= categories[i].basicNeedAmount
      ratio2 == [i \in 1..n |-> BangPerBuck(categories[i], invalid)]
      saturatedSpent ==
        SumSeq([i \in 1..n |->
                  IF isSaturated(i)
                    THEN Mul(categories[i].price, categories[i].basicNeedAmount)
                    ELSE 0])
      totalUnsatRatio ==
        SumSeq([i \in 1..n |-> IF isSaturated(i) THEN 0 ELSE Num(ratio2[i])])
      remainingBudget == budget - saturatedSpent
      result(i) ==
        LET cat == categories[i]
            ratio == ratio1[i]
            share == Mul(DivJS(ratio, totalUnsatRatio),
                         DivJS(remainingBudget, cat.price))
            quantity ==
              IF ratio = Null THEN cat.basicNeedAmount
              ELSE IF ratio = 0 \/ isSaturated(i) THEN cat.basicNeedAmount
              ELSE IF share > cat.basicNeedAmount THEN cat.basicNeedAmount
              ELSE share
        IN [category |-> cat, quantity |-> quantity,
            spent |-> Mul(quantity, cat.price),
            utility |-> Mul(cat.utilityFactor, S - ExpNeg(quantity))]
      results == [i \in 1..n |-> result(i)]
  IN [categories |-> categories, returned |-> TRUE,
      allocations |-> results,
      totalUtility |-> SumSeq([i \in 1..n |-> results[i].utility]),
      totalSpent |-> SumSeq([i \in 1..n |-> results[i].spent]),
      message |-> NoMessage]

OptimisedMarginalUtility(categories, budget) ==
  ThreePasses(categories, budget, 0)

OptimisedMarginalUtilityBudgetFix(categories, budget) ==
  Bind(ThreePasses(categories, budget, Null),
    LAMBDA r :
      [r EXCEPT !.allocations =
         [i \in 1..Len(r.allocations) |->
            [category |-> r.allocations[i].category,
             quantity |-> r.allocations[i].quantity,
             spent |-> r.allocations[i].spent,
             utility |-> r.allocations[i].utility,
             utilityPerBuckOfNextQuantity |-> 0]]])

\* ------------------------------------------------ marginal-utility-optimizer
BUDGET_TOLERANCE == 1

solveForQuantity(category, targetMarginalUtilityPerDollar) ==
  LET qty == DivJS(Mul(2 * category.price, targetMarginalUtilityPerDollar),
                   category.utilityFactor)
  IN IF qty > category.basicNeedAmount THEN category.basicNeedAmount ELSE qty

calculateMaxTotalUtility(category) ==
  Mul(category.utilityFactor, category.basicNeedAmount) \div 2

calculateTotalUtility(category, quantity) ==
  IF quantity > category.basicNeedAmount
    THEN calculateMaxTotalUtility(category)
    ELSE Mul(category.utilityFactor, quantity) \div 2

CostAt(allocations, lambda) ==
  SumSeq([i \in 1..Len(allocations) |->
            IF allocations[i].category.price = 0 THEN 0
            ELSE Mul(solveForQuantity(allocations[i].category, lambda),
                     allocations[i].category.price)])

\* the binary search of findOptimalMarginalUtility
RECURSIVE SearchLambda(_, _, _, _)
SearchLambda(allocations, budget, low, high) ==
  IF ~(high - low > BUDGET_TOLERANCE) THEN (low + high) \div 2
  ELSE LET mid == (low + high) \div 2
           totalCost == CostAt(allocations, mid)
           diff == totalCost - budget
       IN IF (IF diff < 0 THEN 0 - diff ELSE diff) < BUDGET_TOLERANCE THEN mid
          ELSE IF totalCost > budget
            THEN SearchLambda(allocations, budget, mid, high)
            ELSE SearchLambda(allocations, budget, low, mid)

RECURSIVE MaxRatio(_, _)
MaxRatio(allocations, i) ==
  IF i = 0 THEN 0 - Inf
  ELSE Max(MaxRatio(allocations, i - 1),
           DivJS(allocations[i].category.utilityFactor,
                 allocations[i].category.price))

findOptimalMarginalUtility(allocations, budget) ==
  SearchLambda(allocations, budget, 0,
               MaxRatio(allocations, Len(allocations)) * 2)

MarginalUtilityOptimizer(categories, budget) ==
  LET n == Len(categories)
      free(c) == c.price = 0 /\ c.utilityFactor > 0 /\ c.basicNeedAmount > 0
      useful(c) == c.price > 0 /\ c.utilityFactor > 0 /\ c.basicNeedAmount > 0
      initial == [i \in 1..n |->
                    IF free(categories[i])
                      THEN [NewAllocation(categories[i]) EXCEPT
                              !.quantity = categories[i].basicNeedAmount]
                      ELSE NewAllocation(categories[i])]
      usefulAllocations == SelectSeq(initial, LAMBDA a : useful(a.category))
      solved(a, target) ==
        LET quantity == solveForQuantity(a.category, target)
            spent == Mul(quantity, a.category.price)
            utility == calculateTotalUtility(a.category, quantity)
        IN [category |-> a.category, quantity |-> quantity, spent |-> spent,
            utility |-> utility, utilityPerDollar |-> DivJS(utility, spent)]
      finalizeResult(allocations, remainingBudget, iterations) ==
        [categories |-> categories, returned |-> TRUE,
         allocations |-> allocations,
         totalUtility |->
           SumSeq([i \in 1..n |-> allocations[i].utility]),
         totalSpent |-> budget - remainingBudget,
         message |-> [kind |-> "maximized", names |-> <<>>]]
  IN IF Len(usefulAllocations) = 0 \/ budget <= 0
       THEN finalizeResult(initial, budget, 0)
       ELSE
         Bind(findOptimalMarginalUtility(usefulAllocations, budget),
           LAMBDA targetMarginalUtilityPerDollar :
         Bind([i \in 1..n |->
                 IF useful(categories[i])
                   THEN solved(initial[i], targetMarginalUtilityPerDollar)
                   ELSE initial[i]],
           LAMBDA final :
             finalizeResult(final,
               budget - SumSeq([i \in 1..n |->
                                  IF useful(categories[i]) THEN final[i].spent
                                  ELSE 0]),
               1)))

\* ------------------------------------------------- Bucket Utility Smoothing
\* Two classes of this name exist; NUM_BUCKETS is 3 in the one that splits
\* the budget by bucket score and 5 in the one that prioritises basic needs.
NUM_BUCKETS == 3
NUM_BUCKETS_BASIC_NEEDS == 5

WithUtilityPerDollar(cats) ==
  [i \in 1..Len(cats) |->
     [category |-> cats[i],
      utilityPerDollar |->
        IF cats[i].price > 0 THEN DivJS(cats[i].utilityFactor, cats[i].price)
        ELSE Inf]]

UtilityPerDollarOrder(a, b) == SubJS(b.utilityPerDollar, a.utilityPerDollar)

\* buckets of itemsPerBucket consecutive items each
MakeBuckets(sorted, maxBuckets) ==
  LET len == Len(sorted)
      numBuckets == Min(maxBuckets, len)
      itemsPerBucket == (len + numBuckets - 1) \div numBuckets
      all == [i \in 1..numBuckets |->
                SubSeq(sorted, (i - 1) * itemsPerBucket + 1,
                       Min(i * itemsPerBucket, len))]
  IN SelectSeq(all, LAMBDA bucket : Len(bucket) > 0)

BucketMessage(kind, count) == [kind |-> kind, names |-> <<>>, buckets |-> count]

BucketUtilitySmoothing(categories, budget) ==
  LET n == Len(categories)
      allocations == [i \in 1..n |-> NewAllocation(categories[i])]
      buckets ==
        MakeBuckets(SortBy(WithUtilityPerDollar(categories),
                           UtilityPerDollarOrder), NUM_BUCKETS)
      totalUtilityOf(bucket) ==
        SumSeq([k \in 1..Len(bucket) |->
                  calculateUtility(bucket[k].category,
                                   bucket[k].category.basicNeedAmount)])
      totalNecessityOf(bucket) ==
        SumSeq([k \in 1..Len(bucket) |-> bucket[k].category.necessityLevel])
      score == [b \in 1..Len(buckets) |->
                  totalUtilityOf(buckets[b]) * totalNecessityOf(buckets[b])]
      totalScore == SumSeq(score)
      bucketOf(cat) ==
        CHOOSE b \in 1..Len(buckets) :
          \E k \in 1..Len(buckets[b]) : buckets[b][k].category = cat
      budgetPerCategory(b) ==
        DivJS(Mul(budget, DivJS(score[b], totalScore)), Len(buckets[b]) * S)
      allocate(a) ==
        LET category == a.category
            share == budgetPerCategory(bucketOf(category))
            quantity == IF category.price <= 0 THEN category.basicNeedAmount
                        ELSE DivJS(share, category.price)
        IN IF totalScore = 0 THEN a
           ELSE [category |-> category,
                 quantity |-> quantity,
                 spent |-> IF category.price <= 0 THEN 0 ELSE share,
                 utility |-> calculateUtility(category, quantity)]
      final == [i \in 1..n |-> allocate(allocations[i])]
  IN IF n = 0 \/ budget <= 0
       THEN [categories |-> categories, returned |-> TRUE,
             allocations |-> allocations, totalUtility |-> 0,
             totalSpent |-> 0, message |-> BucketMessage("no input", 0)]
       ELSE [categories |-> categories, returned |-> TRUE,
             allocations |-> final,
             totalUtility |-> SumSeq([i \in 1..n |-> final[i].utility]),
             totalSpent |-> SumSeq([i \in 1..n |-> final[i].spent]),
             message |-> BucketMessage("buckets", Len(buckets))]

\* Scarcity: every priced category in descending efficiency of its basic
\* need receives its basic-need cost or what is left of the budget.
RECURSIVE FundByEfficiency(_, _, _)
FundByEfficiency(details, k, remainingBudget) ==
  IF k > Len(details) THEN <<>>
  ELSE LET allocation == Min(details[k].basicNeedCost, remainingBudget)
       IN <<[category |-> details[k].category,
             bucketIndex |-> details[k].bucketIndex,
             allocation |-> allocation]>>
          \o FundByEfficiency(details, k + 1, remainingBudget - allocation)

\* Within a bucket whose budget covers its basic needs: each category in
\* bucket order receives its need or what is left of the bucket's budget.
\* (fulfillmentRatio is 1 whenever this branch is taken; the other case is
\* kept as the program writes it.)
RECURSIVE FundBucket(_, _, _, _, _)
FundBucket(bucket, k, bucketBudget, totalNeeded, remainingBucketBudget) ==
  IF k > Len(bucket) THEN <<>>
  ELSE
    LET category == bucket[k].category
        neededBudget == Mul(category.basicNeedAmount, category.price)
        fulfillmentRatio ==
          IF bucketBudget >= totalNeeded THEN S
          ELSE DivJS(bucketBudget, totalNeeded)
        positionInBucket ==
          DivJS((k - 1) * S,
                (IF Len(bucket) - 1 # 0 THEN Len(bucket) - 1 ELSE 1) * S)
        priorityFactor == S - Mul(positionInBucket, 50)
        allocatedBudget ==
          IF fulfillmentRatio = S
            THEN Min(neededBudget, remainingBucketBudget)
            ELSE Min(Mul(Mul(neededBudget, priorityFactor),
                         DivJS(S, fulfillmentRatio)),
                     remainingBucketBudget)
    IN <<[category |-> category, allocation |-> allocatedBudget]>>
       \o FundBucket(bucket, k + 1, bucketBudget, totalNeeded,
                     remainingBucketBudget - allocatedBudget)

\* basic-need cost of a category
BasicNeedCost(category) == Mul(category.basicNeedAmount, category.price)

\* The categories of all buckets with their bucket, basic-need cost and
\* basic-need efficiency.
RECURSIVE CategoriesWithDetails(_, _)
CategoriesWithDetails(buckets, b) ==
  IF b = 0 THEN <<>>
  ELSE CategoriesWithDetails(buckets, b - 1) \o
       [k \in 1..Len(buckets[b]) |->
          Bind(buckets[b][k].category, LAMBDA category :
            [category |-> category, bucketIndex |-> b,
             basicNeedCost |-> BasicNeedCost(category),
             basicNeedEfficiency |->
               DivJS(calculateUtility(category, category.basicNeedAmount),
                     BasicNeedCost(category))])]

\* The allocations within bucket b, given the basic-need cost of the bucket
\* and, when the budget does not cover all basic needs, what each category
\* was funded with.
WithinBucket(bucket, b, cost, sufficient, funded) ==
  Bind(SelectSeq(funded, LAMBDA item : item.bucketIndex = b),
    LAMBDA categoryAllocations :
  Bind(IF sufficient THEN cost
       ELSE SumSeq([k \in 1..Len(categoryAllocations) |->
                      categoryAllocations[k].allocation]),
    LAMBDA budgetAllocation :
      IF budgetAllocation < cost /\ ~sufficient
        THEN categoryAllocations
        ELSE FundBucket(bucket, 1, budgetAllocation, cost, budgetAllocation)))

\* The allocation record of a category from what its bucket gave it.
ApplyBucketAllocation(a, buckets, within) ==
  IF a.category.price <= 0 THEN a
  ELSE
    Bind(CHOOSE x \in 1..Len(buckets) :
           \E k \in 1..Len(buckets[x]) : buckets[x][k].category = a.category,
      LAMBDA b :
    Bind(CHOOSE x \in {within[b][k] : k \in 1..Len(within[b])} :
           x.category = a.category,
      LAMBDA item :
    Bind(DivJS(item.allocation, a.category.price),
      LAMBDA quantity :
        [category |-> a.category, quantity |-> quantity,
         spent |-> item.allocation,
         utility |-> calculateUtility(a.category, quantity)])))

BucketUtilitySmoothingBasicNeeds(categories, budget) ==
  Bind([i \in 1..Len(categories) |-> NewAllocation(categories[i])],
    LAMBDA allocations :
  Bind(SelectSeq(categories, LAMBDA c : ~(c.price <= 0)),
    LAMBDA regularCategories :
      IF Len(categories) = 0 \/ budget <= 0
        THEN [categories |-> categories, returned |-> TRUE,
              allocations |-> allocations, totalUtility |-> 0,
              totalSpent |-> 0, message |-> BucketMessage("no input", 0)]
      ELSE IF Len(regularCategories) = 0
        THEN [categories |-> categories, returned |-> TRUE,
              allocations |-> allocations, totalUtility |-> 0,
              totalSpent |-> 0, message |-> BucketMessage("all free", 0)]
      ELSE
  Bind(MakeBuckets(SortBy(WithUtilityPerDollar(regularCategories),
                          UtilityPerDollarOrder), NUM_BUCKETS_BASIC_NEEDS),
    LAMBDA buckets :
  Bind([b \in 1..Len(buckets) |->
          SumSeq([k \in 1..Len(buckets[b]) |->
                    BasicNeedCost(buckets[b][k].category)])],
    LAMBDA bucketCost :
  Bind(budget >= SumSeq(bucketCost),
    LAMBDA sufficient :
  Bind(FundByEfficiency(
         SortBy(CategoriesWithDetails(buckets, Len(buckets)),
                LAMBDA x, y : SubJS(y.basicNeedEfficiency,
                                    x.basicNeedEfficiency)),
         1, budget),
    LAMBDA funded :
  Bind([b \in 1..Len(buckets) |->
          WithinBucket(buckets[b], b, bucketCost[b], sufficient, funded)],
    LAMBDA within :
  Bind([i \in 1..Len(categories) |->
          ApplyBucketAllocation(allocations[i], buckets, within)],
    LAMBDA final :
      [categories |-> categories, returned |-> TRUE,
       allocations |-> final,
       totalUtility |->
         SumSeq([i \in 1..Len(categories) |->
                   IF categories[i].price <= 0 THEN 0 ELSE final[i].utility]),
       totalSpent |->
         SumSeq([i \in 1..Len(categories) |->
                   IF categories[i].price <= 0 THEN 0 ELSE final[i].spent]),
       message |->
         BucketMessage("buckets, basic needs first", Len(buckets))]))))))))

\* ----------------------------------------------------------------- registry
\* The registry, in the order of the algorithms array (indices from 0).
algorithms ==
  <<"PriorityNecessity", "PureUtility", "BalancedApproach",
    "FlatTimeUtilityMaximisation", "MarginalUtility",
    "OptimisedMarginalUtility", "OptimisedMarginalUtilityBudgetFix",
    "SimpleProportions", "MarginalUtilityOptimizer", "PairProgramming",
    "BucketUtilitySmoothing", "Blur">>

Registered == 0..(Len(algorithms) - 1)

\* The class an entry of the registry is an instance of.  Two classes named
\* BucketUtilitySmoothingAlgorithm exist, so that entry is either.
ClassesOf(index) ==
  IF algorithms[index + 1] = "BucketUtilitySmoothing"
    THEN {"BucketUtilitySmoothing", "BucketUtilitySmoothingBasicNeeds"}
    ELSE {algorithms[index + 1]}

calculate(name, categories, budget) ==
  CASE name = "PriorityNecessity" -> PriorityNecessity(categories, budget)
    [] name = "PureUtility" -> PureUtility(categories, budget)
    [] name = "BalancedApproach" -> BalancedApproach(categories, budget)
    [] name = "FlatTimeUtilityMaximisation" ->
         FlatTimeUtilityMaximisation(categories, budget)
    [] name = "MarginalUtility" -> MarginalUtility(categories, budget)
    [] name = "OptimisedMarginalUtility" ->
         OptimisedMarginalUtility(categories, budget)
    [] name = "OptimisedMarginalUtilityBudgetFix" ->
         OptimisedMarginalUtilityBudgetFix(categories, budget)
    [] name = "SimpleProportions" -> SimpleProportions(categories, budget)
    [] name = "MarginalUtilityOptimizer" ->
         MarginalUtilityOptimizer(categories, budget)
    [] name = "PairProgramming" -> PairProgramming(categories, budget)
    [] name = "BucketUtilitySmoothing" ->
         BucketUtilitySmoothing(categories, budget)
    [] name = "BucketUtilitySmoothingBasicNeeds" ->
         BucketUtilitySmoothingBasicNeeds(categories, budget)
    [] name = "Blur" -> Blur(categories, budget)

\* ----------------------------------------------------------- page component
\* The component "app" of the page: its fields hold the categories and the
\* budget the user edits, the index of the selected algorithm and the result
\* of the last calculation.  budget is in the currency of the page; the
\* algorithms are called with budget / 30.  (minBudget, maxBudget, step and
\* chartData are not read by the handlers modelled here.)
Component ==
  [budget |-> 1000 * S, categories |-> <<>>, allocations |-> <<>>,
   totalUtility |-> 0, totalSpent |-> 0, optimizationMessage |-> NoMessage,
   selectedAlgorithmIndex |-> 0,
   modelSettings |-> [equalFactors |-> FALSE, noDiminishingReturns |-> FALSE,
                      flatUtility |-> FALSE, strictNecessityPriority |-> TRUE]]

\* defaultCategories, of which resetToDefault assigns a copy: the first two
\* of the list the component declares in its literal form (the later form
\* takes the list from getSpaceGsMock of the space-gs-importer module).
DefaultCategories ==
  <<Cat("Housing", 500 * S, 5 * S, 1 * S, 50, 10),
    Cat("Food", 10 * S, 5 * S, 20 * S, 80, 9)>>

\* The object kowalski of the scenario module (of its categories, two whose
\* values lie on the grid).  shared tells whether the field categories of
\* the component refers to the array kowalski.categories itself.
KowalskiCategories ==
  <<Cat("Brain Interface Chips", 101 * S, 1 * S, 0, 50, 5),
    Cat("Air conditioning", 0, 1 * S, 1 * S, 50, 5)>>

Scenario == [categories |-> KowalskiCategories, budget |-> 166 * S, shared |-> FALSE]

\* Strings are sequences of characters.
Digits == <<"0", "1", "2", "3", "4", "5", "6", "7", "8", "9">>
IsDigit(ch) == \E d \in 1..Len(Digits) : Digits[d] = ch
DigitValue(ch) == (CHOOSE d \in 1..Len(Digits) : Digits[d] = ch) - 1

RECURSIVE TrimStart(_)
TrimStart(string) ==
  IF string # <<>> /\ Head(string) = " " THEN TrimStart(Tail(string))
  ELSE string

\* the value of the longest prefix of decimal digits, NaN when there is none
RECURSIVE ParseDigits(_, _, _)
ParseDigits(string, value, seen) ==
  IF string # <<>> /\ IsDigit(Head(string))
    THEN ParseDigits(Tail(string), value * 10 + DigitValue(Head(string)), TRUE)
  ELSE IF seen THEN value ELSE NaN

\* parseInt(string, 10): leading white space, a sign, then decimal digits up
\* to the first other character.  The result is a whole number or NaN.
parseInt(string) ==
  LET trimmed == TrimStart(string)
      signed == trimmed # <<>> /\ Head(trimmed) \in {"-", "+"}
      negative == trimmed # <<>> /\ Head(trimmed) = "-"
      magnitude == ParseDigits(IF signed THEN Tail(trimmed) ELSE trimmed,
                               0, FALSE)
  IN IF magnitude = NaN THEN NaN
     ELSE IF negative THEN 0 - magnitude ELSE magnitude

\* What changeAlgorithm is called with: the value of an option of the select
\* element, and other strings.  (An argument that is not a string is
\* parsed as its string conversion.)
Arguments ==
  { <<"0">>, <<"3">>, <<"1", "0">>, <<"1", "1">>, <<" ", "4">>, <<"+", "7">>,
    <<"5", ".", "9">>, <<"6", "x">>, <<"1", "e", "3">>,
    <<>>, <<"-", "1">>, <<"1", "2">>, <<"x", "6">>, <<"9", "9">>, <<"-">> }

\* (variant: the index is not compared with the length of the registry)
InvalidIndexNoUpperLimit(numericIndex) ==
  numericIndex = NaN \/ numericIndex < 0

\* the test of changeAlgorithm that rejects an index
InvalidIndex(numericIndex) ==
  \/ numericIndex = NaN
  \/ numericIndex < 0
  \/ numericIndex >= Len(algorithms)

\* the category addCategory appends
NewCategory == Cat("New Category", 10 * S, 5 * S, 1 * S, 70, 5)

\* The copies of the categories that calculateOptimalSpending passes to the
\* algorithm.  Each copy is a new object: ref tells the copies apart where
\* an algorithm looks an object up (indexOf).
processedCategories(cats) ==
  [i \in 1..Len(cats) |->
     [name |-> cats[i].name, price |-> cats[i].price,
      utilityFactor |-> cats[i].utilityFactor,
      basicNeedAmount |-> cats[i].basicNeedAmount,
      diminishingFactor |-> cats[i].diminishingFactor,
      necessityLevel |-> cats[i].necessityLevel, ref |-> i]]

\* calculateOptimalSpending with the algorithm of class name selected: the
\* fields of the component after it, and whether the algorithm returned.
calculateOptimalSpending(self, name) ==
  Bind(calculate(name, processedCategories(self.categories),
                 DivJS(self.budget, 30 * S)),
    LAMBDA r :
      [returned |-> r.returned,
       app |-> IF r.returned
                 THEN [self EXCEPT !.allocations = r.allocations,
                                   !.totalUtility = r.totalUtility,
                                   !.totalSpent = r.totalSpent,
                                   !.optimizationMessage = r.message]
                 ELSE self])

\* the budgets the slider is moved to (from 0 to 2000 in steps of 10)
SliderBudgets == {0, 300 * S, 1000 * S, 2000 * S}

NoCall == [handler |-> "", argument |-> <<>>, calculated |-> FALSE,
           returned |-> TRUE]

\* ------------------------------------------------------------ state machine
\* categories, budget: the input the caller holds and passes to calculate
\* result: what the call on this input returned; called is FALSE before the
\*   call, algorithm is the class of the algorithm called, returned
\*   is FALSE when the call does not return, input is the categories array
\*   as it was passed
\* app: the page component (its fields, see the section "page component")
\* call: the handler of the page component that was called last, whether it
\*   ran an algorithm, and whether it has returned
VARIABLES categories, budget, result, app, call, measured, search, kowalski

engineVars == <<categories, budget, result>>
appVars == <<app, call>>

\* No utility has been computed.
NoMeasure == [called |-> FALSE, category |-> Cat("", 0, 0, 0, 0, 1), quantity |-> 0,
              utility |-> 0, next |-> 0]
NoSearch == [allocations |-> <<>>, budget |-> 0, low |-> 0, high |-> 0,
             iterations |-> 0, returned |-> FALSE, value |-> 0]

vars == <<categories, budget, result, app, call, measured, search, kowalski>>

NoResult == [called |-> FALSE, algorithm |-> "", returned |-> FALSE,
             allocations |-> <<>>, totalUtility |-> 0, totalSpent |-> 0,
             message |-> NoMessage, input |-> <<>>]

Init ==
  /\ categories = <<>>
  /\ budget = 0
  /\ result = NoResult
  /\ app = Component
  /\ call = NoCall
  /\ measured = NoMeasure
  /\ search = NoSearch
  /\ kowalski = Scenario

\* The caller appends a category to the list it will pass.
SupplyCategory ==
  \E c \in Catalogue :
    /\ Len(categories) < MaxCats
    /\ \A i \in 1..Len(categories) : categories[i].name # c.name
    /\ categories' = Append(categories, c)
    /\ result' = NoResult
    /\ UNCHANGED budget
    /\ UNCHANGED <<appVars, measured, search, kowalski>>

\* The caller removes the category at an index.
WithdrawCategory ==
  \E i \in 1..Len(categories) :
    /\ categories' = [k \in 1..(Len(categories) - 1) |->
                        IF k < i THEN categories[k] ELSE categories[k + 1]]
    /\ result' = NoResult
    /\ UNCHANGED budget
    /\ UNCHANGED <<appVars, measured, search, kowalski>>

\* The caller chooses the budget.
SupplyBudget ==
  \E b \in Budgets :
    /\ b # budget
    /\ budget' = b
    /\ result' = NoResult
    /\ UNCHANGED categories
    /\ UNCHANGED <<appVars, measured, search, kowalski>>

\* The caller selects a registered algorithm and calls its calculate, once,
\* with the categories and the budget it holds.
Calculate ==
  /\ ~result.called
  /\ \E index \in Registered :
     \E name \in ClassesOf(index) :
     \E r \in {calculate(name, categories, budget)} :
       /\ categories' = r.categories
       /\ result' = [called |-> TRUE, algorithm |-> name,
                     returned |-> r.returned,
                     allocations |-> r.allocations,
                     totalUtility |-> r.totalUtility,
                     totalSpent |-> r.totalSpent, message |-> r.message,
                     input |-> categories]
       /\ UNCHANGED budget
       /\ UNCHANGED <<appVars, measured, search, kowalski>>

Next == SupplyCategory \/ WithdrawCategory \/ SupplyBudget \/ Calculate

Spec == Init /\ [][Next]_vars

\* ------------------------------------------------ page component: handlers
AppInit ==
  /\ categories = <<>>
  /\ budget = 0
  /\ result = NoResult
  /\ app = Component
  /\ call = NoCall
  /\ measured = NoMeasure
  /\ search = NoSearch
  /\ kowalski = Scenario

\* An edit of the array the field categories refers to: it is an edit of
\* kowalski.categories when the field refers to that array.
Edited(cats) ==
  IF kowalski.shared THEN [kowalski EXCEPT !.categories = cats] ELSE kowalski

\* The end of every handler: calculateOptimalSpending on the fields self.
\* getCurrentAlgorithm() is undefined for an index outside the registry, and
\* reading its name throws before an algorithm runs.
Recalculate(self, handler, argument) ==
  IF self.selectedAlgorithmIndex \notin Registered
    THEN /\ app' = self
         /\ call' = [handler |-> handler, argument |-> argument,
                     calculated |-> FALSE, returned |-> TRUE]
    ELSE \E name \in ClassesOf(self.selectedAlgorithmIndex) :
         \E r \in {calculateOptimalSpending(self, name)} :
           /\ app' = r.app
           /\ call' = [handler |-> handler, argument |-> argument,
                       calculated |-> TRUE, returned |-> r.returned]

changeAlgorithm ==
  /\ call.returned
  /\ \E index \in Arguments :
     \E numericIndex \in {parseInt(index)} :
       IF InvalidIndex(numericIndex)
         THEN /\ app' = app
              /\ call' = [handler |-> "changeAlgorithm", argument |-> index,
                          calculated |-> FALSE, returned |-> TRUE]
         ELSE Recalculate([app EXCEPT !.selectedAlgorithmIndex = numericIndex],
                          "changeAlgorithm", index)
  /\ UNCHANGED <<engineVars, measured, search, kowalski>>

addCategory ==
  /\ call.returned
  /\ Len(app.categories) < MaxCats
  /\ Recalculate([app EXCEPT !.categories = Append(@, NewCategory)],
                 "addCategory", <<>>)
  /\ kowalski' = Edited(app'.categories)
  /\ UNCHANGED <<engineVars, measured, search>>

removeCategory ==
  /\ call.returned
  /\ \E index \in 0..(Len(app.categories) - 1) :
       Recalculate(
         [app EXCEPT !.categories =
            [k \in 1..(Len(@) - 1) |-> IF k <= index THEN @[k] ELSE @[k + 1]]],
         "removeCategory", <<>>)
  /\ kowalski' = Edited(app'.categories)
  /\ UNCHANGED <<engineVars, measured, search>>

\* The slider bound to budget is moved; its input event calls
\* calculateOptimalSpending.
inputBudget ==
  /\ call.returned
  /\ \E value \in SliderBudgets :
       Recalculate([app EXCEPT !.budget = value], "inputBudget", <<>>)
  /\ UNCHANGED <<engineVars, measured, search, kowalski>>

AppNext ==
  \/ changeAlgorithm
  \/ addCategory
  \/ removeCategory
  \/ inputBudget

AppSpec == AppInit /\ [][AppNext]_vars

\* ------------------------------------------------- page component: presets
EachCategory(cats, F(_)) == [i \in 1..Len(cats) |-> F(cats[i])]

\* this.categories = JSON.parse(JSON.stringify(this.defaultCategories))
resetToDefault ==
  /\ call.returned
  /\ \E resetAlgorithm \in BOOLEAN :
       Recalculate(
         [app EXCEPT !.modelSettings =
                       [equalFactors |-> FALSE, noDiminishingReturns |-> FALSE,
                        flatUtility |-> FALSE, strictNecessityPriority |-> TRUE],
                     !.categories = DefaultCategories,
                     !.budget = 1000 * S,
                     !.selectedAlgorithmIndex = IF resetAlgorithm THEN 0 ELSE @],
         "resetToDefault", <<>>)
  /\ kowalski' = [kowalski EXCEPT !.shared = FALSE]
  /\ UNCHANGED <<engineVars, measured, search>>

applyEqualFactorsModel ==
  /\ call.returned
  /\ Recalculate(
       [app EXCEPT !.modelSettings.equalFactors = TRUE,
                   !.categories =
                     EachCategory(@, LAMBDA c : [c EXCEPT !.utilityFactor = 5 * S])],
       "applyEqualFactorsModel", <<>>)
  /\ kowalski' = Edited(app'.categories)
  /\ UNCHANGED <<engineVars, measured, search>>

applyNoDiminishingReturnsModel ==
  /\ call.returned
  /\ Recalculate(
       [app EXCEPT !.modelSettings.noDiminishingReturns = TRUE,
                   !.categories =
                     EachCategory(@, LAMBDA c : [c EXCEPT !.diminishingFactor = 0])],
       "applyNoDiminishingReturnsModel", <<>>)
  /\ kowalski' = Edited(app'.categories)
  /\ UNCHANGED <<engineVars, measured, search>>

applyFlatUtilityModel ==
  /\ call.returned
  /\ Recalculate(
       [app EXCEPT !.modelSettings.flatUtility = TRUE,
                   !.categories =
                     EachCategory(@, LAMBDA c : [c EXCEPT !.necessityLevel = 5])],
       "applyFlatUtilityModel", <<>>)
  /\ kowalski' = Edited(app'.categories)
  /\ UNCHANGED <<engineVars, measured, search>>

\* this.categories = kowalski.categories: the field refers to the array of
\* the scenario from here on
applyKowalskiScenario ==
  /\ call.returned
  /\ Recalculate([app EXCEPT !.categories = kowalski.categories,
                             !.budget = kowalski.budget],
                 "applyKowalskiScenario", <<>>)
  /\ kowalski' = [kowalski EXCEPT !.shared = TRUE]
  /\ UNCHANGED <<engineVars, measured, search>>

HighContrast(category) ==
  IF category.necessityLevel >= 8
    THEN [category EXCEPT !.necessityLevel = 10,
                          !.basicNeedAmount = Max(1 * S, @)]
  ELSE IF category.necessityLevel <= 4
    THEN [category EXCEPT !.necessityLevel = 1]
  ELSE [category EXCEPT !.necessityLevel = 5]

applyHighContrast ==
  /\ call.returned
  /\ Recalculate([app EXCEPT !.categories = EachCategory(@, HighContrast)],
                 "applyHighContrast", <<>>)
  /\ kowalski' = Edited(app'.categories)
  /\ UNCHANGED <<engineVars, measured, search>>

PresetNext ==
  \/ resetToDefault
  \/ applyEqualFactorsModel
  \/ applyNoDiminishingReturnsModel
  \/ applyFlatUtilityModel
  \/ applyKowalskiScenario
  \/ applyHighContrast
  \/ addCategory
  \/ removeCategory

PresetSpec == AppInit /\ [][PresetNext]_vars

\* --------------------------------------------- utility function: evaluation
\* The parameter values and quantities calculateUtility is evaluated at.
MaxQuantity == 6

UtilityCategories ==
  { Cat("Category", 1 * S, uf, bna, d, nl) :
      uf \in {50, 1 * S, 2 * S}, bna \in {0, 50, 1 * S, 250, 3 * S},
      d \in {0, 50, 1 * S}, nl \in {1, 5, 6, 10} }

Quantities == { q * S : q \in 0..MaxQuantity }

UtilityInit ==
  /\ categories = <<>>
  /\ budget = 0
  /\ result = NoResult
  /\ app = Component
  /\ call = NoCall
  /\ \E c \in UtilityCategories, q \in Quantities :
       measured = [NoMeasure EXCEPT !.category = c, !.quantity = q]
  /\ search = NoSearch
  /\ kowalski = Scenario

\* calculateUtility is called for the quantity and for one unit more.
Measure ==
  /\ ~measured.called
  /\ measured' = [measured EXCEPT
                    !.called = TRUE,
                    !.utility = calculateUtility(measured.category,
                                                 measured.quantity),
                    !.next = calculateUtility(measured.category,
                                              measured.quantity + 1 * S)]
  /\ UNCHANGED <<engineVars, appVars, search, kowalski>>

UtilityNext == Measure

UtilitySpec == UtilityInit /\ [][UtilityNext]_vars

\* ------------------------------------- five-bucket class: calls under scarcity
\* Lists of up to MaxBucketCats categories, among them one without a basic
\* need (basicNeedAmount 0) and one of low necessity and high utility per
\* dollar, passed to the class that prioritises basic needs.
MaxBucketCats == 3

BucketCatalogue ==
  { Cat("Gadget", 100, 200, 100, 50, 1),
    Cat("Trinket", 100, 100, 0, 50, 1),
    Cat("Health", 200, 100, 100, 50, 10),
    Cat("Water", 50, 200, 250, 90, 10) }

SupplyBucketCategory ==
  \E c \in BucketCatalogue :
    /\ ~result.called
    /\ Len(categories) < MaxBucketCats
    /\ \A i \in 1..Len(categories) : categories[i].name # c.name
    /\ categories' = Append(categories, c)
    /\ UNCHANGED <<budget, result, appVars, measured, search, kowalski>>

SupplyBucketBudget ==
  \E b \in Budgets :
    /\ ~result.called
    /\ b # budget
    /\ budget' = b
    /\ UNCHANGED <<categories, result, appVars, measured, search, kowalski>>

CalculateBuckets ==
  /\ ~result.called
  /\ \E r \in {BucketUtilitySmoothingBasicNeeds(categories, budget)} :
       /\ categories' = r.categories
       /\ result' = [called |-> TRUE,
                     algorithm |-> "BucketUtilitySmoothingBasicNeeds",
                     returned |-> r.returned,
                     allocations |-> r.allocations,
                     totalUtility |-> r.totalUtility,
                     totalSpent |-> r.totalSpent, message |-> r.message,
                     input |-> categories]
  /\ UNCHANGED <<budget, appVars, measured, search, kowalski>>

BucketNext == SupplyBucketCategory \/ SupplyBucketBudget \/ CalculateBuckets

BucketSpec == Init /\ [][BucketNext]_vars

\* ------------------------------------------ binary search: one iteration a step
\* The numbers of the search carry a significand of SignificandBits bits (a
\* double carries 53): above 2^SignificandBits steps of BUDGET_TOLERANCE the
\* neighbouring numbers are further apart than the tolerance.
SignificandBits == 6

RECURSIVE Spacing(_, _)
Spacing(x, step) ==
  IF x < step * 2^SignificandBits THEN step ELSE Spacing(x, step * 2)

\* round to nearest, ties to the even significand
RoundToSignificand(x) ==
  LET step == Spacing(x, 1)
      below == (x \div step) * step
      rest == x - below
  IN IF 2 * rest < step THEN below
     ELSE IF 2 * rest > step THEN below + step
     ELSE IF (below \div step) % 2 = 0 THEN below ELSE below + step

Midpoint(low, high) == RoundToSignificand(low + high) \div 2

Abs(x) == IF x < 0 THEN 0 - x ELSE x

SearchInputs ==
  { c \in Catalogue : c.price > 0 /\ c.utilityFactor > 0 }

\* let low = 0; let high = Math.max(...) * 2
SearchInit ==
  /\ categories = <<>>
  /\ budget = 0
  /\ result = NoResult
  /\ app = Component
  /\ call = NoCall
  /\ measured = NoMeasure
  /\ kowalski = Scenario
  /\ \E a \in SearchInputs, b \in SearchInputs, m \in Budgets \ {0} :
       \E allocations \in {IF a = b THEN <<[category |-> a]>>
                           ELSE <<[category |-> a], [category |-> b]>>} :
         search = [NoSearch EXCEPT
                     !.allocations = allocations,
                     !.budget = m,
                     !.high = RoundToSignificand(
                                MaxRatio(allocations, Len(allocations))) * 2]

\* one pass through the body of the while loop
SearchIterate ==
  /\ ~search.returned
  /\ search.high - search.low > BUDGET_TOLERANCE
  /\ search.iterations < MaxLoop
  /\ \E mid \in {Midpoint(search.low, search.high)} :
       \E totalCost \in {CostAt(search.allocations, mid)} :
         search' =
           IF Abs(totalCost - search.budget) < BUDGET_TOLERANCE
             THEN [search EXCEPT !.iterations = @ + 1, !.returned = TRUE,
                                 !.value = mid]
           ELSE IF totalCost > search.budget
             THEN [search EXCEPT !.iterations = @ + 1, !.low = mid]
             ELSE [search EXCEPT !.iterations = @ + 1, !.high = mid]
  /\ UNCHANGED <<engineVars, appVars, measured, kowalski>>

\* the loop condition fails: return (low + high) / 2
SearchExit ==
  /\ ~search.returned
  /\ ~(search.high - search.low > BUDGET_TOLERANCE)
  /\ search' = [search EXCEPT !.returned = TRUE,
                              !.value = Midpoint(search.low, search.high)]
  /\ UNCHANGED <<engineVars, appVars, measured, kowalski>>

SearchNext == SearchIterate \/ SearchExit

SearchSpec == SearchInit /\ [][SearchNext]_vars

\* ============================================================== properties
\* The call has returned an AllocationResult.
Done == result.called /\ result.returned

\* The allocations of the result that are for the category named nm.
AllocationsFor(nm) ==
  { i \in 1..Len(result.allocations) : result.allocations[i].category.name = nm }

\* C1 (conservation): for every algorithm and input, the returned totalSpent
\* is at most the budget (the tolerance of 1e-6 is below the grid).
Conservation == Done => ~Gt(result.totalSpent, budget)

\* C2 (coverage): a returned result has exactly one allocation for each
\* input category.
Coverage ==
  Done =>
    /\ Len(result.allocations) = Len(result.input)
    /\ \A i \in 1..Len(result.input) :
         Cardinality(AllocationsFor(result.input[i].name)) = 1

\* C3 (utility consistency): totalUtility is the sum of the allocations'
\* utility fields.
UtilityConsistency ==
  Done =>
    result.totalUtility =
      SumSeq([i \in 1..Len(result.allocations) |-> result.allocations[i].utility])

\* C4 (free-good handling): with a budget above zero, under every registered
\* algorithm, the category with price 0, basicNeedAmount 10 and utilityFactor
\* 1 is in the result with quantity 10 and spent 0, and the other categories
\* are given what they are given when the free category is not in the input.
FreeGoodHandling ==
  (Done /\ budget > 0
        /\ \E i \in 1..Len(result.input) : result.input[i].name = "Air") =>
    /\ \E i \in AllocationsFor("Air") :
         /\ result.allocations[i].quantity = 10 * S
         /\ result.allocations[i].spent = 0
    /\ LET others == SelectSeq(result.input, LAMBDA c : c.name # "Air")
           alone == calculate(result.algorithm, others, budget)
       IN /\ alone.returned
          /\ \A i \in 1..Len(result.allocations) :
               result.allocations[i].category.name # "Air" =>
                 \E j \in 1..Len(alone.allocations) :
                   /\ alone.allocations[j].category = result.allocations[i].category
                   /\ alone.allocations[j].spent = result.allocations[i].spent

\* C5 (zero budget): with budget 0 every algorithm returns totalSpent 0, and
\* every quantity is 0, or basicNeedAmount for a category that costs nothing.
ZeroBudget ==
  (Done /\ budget = 0 /\ Len(result.input) > 0) =>
    /\ result.totalSpent = 0
    /\ \A i \in 1..Len(result.allocations) :
         LET a == result.allocations[i]
         IN \/ a.quantity = 0
            \/ (a.category.price = 0 /\ a.quantity = a.category.basicNeedAmount)

\* The quantity the allocations give the category named nm: the sum over its
\* allocations, 0 when it has none.
QuantityIn(allocations, nm) ==
  SumSeq([i \in 1..Len(allocations) |->
            IF allocations[i].category.name = nm
              THEN allocations[i].quantity ELSE 0])

ByPriorityNecessity == Done /\ result.algorithm = "PriorityNecessity"

\* The categories A and B of the necessity-dominance scenario.
IsA(c) == c.necessityLevel = 10 /\ c.basicNeedAmount = 5 * S /\ c.price = S
IsB(c) == c.necessityLevel = 1 /\ c.price = S /\ c.utilityFactor > 0

DominanceScenario ==
  /\ result.called
  /\ result.algorithm = "PriorityNecessity"
  /\ budget = 5 * S
  /\ Len(result.input) = 2
  /\ \E i, j \in 1..2 : IsA(result.input[i]) /\ IsB(result.input[j])

\* C6 (necessity dominance): Priority Necessity, given exactly the two
\* categories A (necessityLevel 10, basicNeedAmount 5, price 1) and
\* B (necessityLevel 1, price 1, any positive utilityFactor) and budget 5,
\* returns quantity 5 for A and quantity 0 for B.
NecessityDominance ==
  DominanceScenario =>
    /\ result.returned
    /\ \A i \in 1..2 :
         /\ IsA(result.input[i]) =>
              /\ Cardinality(AllocationsFor(result.input[i].name)) = 1
              /\ QuantityIn(result.allocations, result.input[i].name) = 5 * S
         /\ IsB(result.input[i]) =>
              /\ Cardinality(AllocationsFor(result.input[i].name)) = 1
              /\ QuantityIn(result.allocations, result.input[i].name) = 0

\* C6: the scenario with a B whose utilityFactor is fifty times A's; A has
\* been given its five units.
NecessityDominanceCase ==
  /\ DominanceScenario
  /\ \E i, j \in 1..2 :
       /\ IsA(result.input[i])
       /\ IsB(result.input[j])
       /\ result.input[j].utilityFactor >= 50 * result.input[i].utilityFactor
       /\ QuantityIn(result.allocations, result.input[i].name) = 5 * S

\* The budgets not above the budget of the call.
LowerBudgets == { b \in Budgets : b <= budget }

\* C7 as stated (monotonic budget response): for Priority Necessity and a
\* fixed category list, a result for a lower budget has no greater
\* totalUtility than the result for the budget of the call, and gives no
\* category with necessityLevel above 5 more units.
MonotonicBudgetResponse ==
  ByPriorityNecessity =>
    \A b1 \in LowerBudgets :
      \E lower \in {PriorityNecessity(result.input, b1)} :
        /\ lower.totalUtility <= result.totalUtility
        /\ \A i \in 1..Len(result.input) :
             result.input[i].necessityLevel > 5 =>
               QuantityIn(lower.allocations, result.input[i].name)
                 <= QuantityIn(result.allocations, result.input[i].name)

\* The priced category the needs pass of Priority Necessity visits first:
\* none has a higher necessity level, and of those with its necessity level
\* none has a higher utilityFactor / price.
VisitedFirst(c) ==
  /\ c.price > 0
  /\ \A i \in 1..Len(result.input) :
       LET d == result.input[i]
       IN (d.price > 0 /\ d.name # c.name) =>
            \/ d.necessityLevel < c.necessityLevel
            \/ /\ d.necessityLevel = c.necessityLevel
               /\ DivJS(d.utilityFactor, d.price) < DivJS(c.utilityFactor, c.price)

\* C7 as amended: for Priority Necessity and a fixed category list, the
\* category visited first in the needs pass has, counted up to its basic
\* need, at least as many units under the budget of the call as under any
\* lower budget.
FirstNeedMonotonic ==
  ByPriorityNecessity =>
    \A b1 \in LowerBudgets :
      \E lower \in {PriorityNecessity(result.input, b1)} :
        \A i \in 1..Len(result.input) :
          LET c == result.input[i]
          IN VisitedFirst(c) =>
               Min(QuantityIn(lower.allocations, c.name), Ceil(c.basicNeedAmount))
                 <= Min(QuantityIn(result.allocations, c.name),
                        Ceil(c.basicNeedAmount))

\* C7: a call with a budget that buys the category visited first more of its
\* basic need than a lower budget does, while another category is given
\* fewer units than under that lower budget.
FirstNeedMonotonicCase ==
  /\ ByPriorityNecessity
  /\ \E b1 \in LowerBudgets :
       \E lower \in {PriorityNecessity(result.input, b1)} :
         \E i, j \in 1..Len(result.input) :
           /\ VisitedFirst(result.input[i])
           /\ QuantityIn(lower.allocations, result.input[i].name)
                < QuantityIn(result.allocations, result.input[i].name)
           /\ QuantityIn(result.allocations, result.input[i].name)
                <= result.input[i].basicNeedAmount
           /\ QuantityIn(lower.allocations, result.input[j].name)
                > QuantityIn(result.allocations, result.input[j].name)

\* What the result spent on categories of necessity level 1.
SpentOnLuxuries ==
  SumSeq([i \in 1..Len(result.allocations) |->
            IF result.allocations[i].category.necessityLevel = 1
              THEN result.allocations[i].spent ELSE 0])

LuxuryBought ==
  \E i \in 1..Len(result.allocations) :
    /\ result.allocations[i].category.necessityLevel = 1
    /\ result.allocations[i].quantity > 0

UnmetInResult ==
  { result.allocations[i].category.name :
      i \in { k \in 1..Len(result.allocations) :
                /\ result.allocations[k].category.necessityLevel > 3
                /\ result.allocations[k].quantity
                     < result.allocations[k].category.basicNeedAmount } }

\* C9 (unmet-needs diagnostic): the message of Priority Necessity, Pure
\* Utility and Balanced Approach names exactly the categories of the result
\* with necessityLevel above 3 and a quantity below the basic need, and names
\* no unmet category when there is none.
UnmetNeedsDiagnostic ==
  (Done /\ result.algorithm \in
             {"PriorityNecessity", "PureUtility", "BalancedApproach"}) =>
    IF UnmetInResult # {}
      THEN /\ result.message.kind = "unmet"
           /\ { result.message.names[i] : i \in 1..Len(result.message.names) }
                = UnmetInResult
      ELSE result.message.kind # "unmet"

RejectedArgument(c) ==
  /\ c.handler = "changeAlgorithm"
  /\ \E numericIndex \in {parseInt(c.argument)} :
       \/ numericIndex = NaN
       \/ numericIndex < 0
       \/ numericIndex >= Len(algorithms)

\* C11 (registry selection is bounds-checked): selectedAlgorithmIndex is
\* always a whole number from 0 to algorithms.length - 1, and a call of
\* changeAlgorithm whose parsed index is NaN, negative or at least
\* algorithms.length runs no algorithm and leaves selectedAlgorithmIndex,
\* allocations, totalUtility and totalSpent as they were.
RegistrySelection ==
  /\ [](app.selectedAlgorithmIndex \in 0..(Len(algorithms) - 1))
  /\ [][RejectedArgument(call') =>
          /\ ~call'.calculated
          /\ app'.selectedAlgorithmIndex = app.selectedAlgorithmIndex
          /\ app'.allocations = app.allocations
          /\ app'.totalUtility = app.totalUtility
          /\ app'.totalSpent = app.totalSpent]_vars

\* C11: changeAlgorithm was called with "12" while an algorithm other than
\* the first is selected and a calculation has left allocations; no algorithm
\* ran.
RegistrySelectionCase ==
  /\ call.handler = "changeAlgorithm"
  /\ call.argument = <<"1", "2">>
  /\ ~call.calculated
  /\ app.selectedAlgorithmIndex = 11
  /\ Len(app.allocations) > 0
  /\ app.totalSpent > 0

\* The lowest price among the categories of the call.
MinPrice ==
  CHOOSE p \in { result.input[i].price : i \in 1..Len(result.input) } :
    \A i \in 1..Len(result.input) : p <= result.input[i].price

\* The units the result holds, which for Pure Utility is the number of
\* purchases its loop made.
UnitsBought ==
  SumSeq([i \in 1..Len(result.allocations) |-> result.allocations[i].quantity])

\* C12 (every algorithm terminates): every call of calculate returns, also
\* for inputs with a category of price 0 or of diminishingFactor 1; and the
\* greedy loops of Pure Utility and Balanced Approach buy at most
\* budget / min(price) units.
Termination ==
  /\ result.called => result.returned
  /\ (Done /\ result.algorithm \in {"PureUtility", "BalancedApproach"}
           /\ Len(result.input) > 0 /\ MinPrice > 0) =>
       UnitsBought <= DivJS(budget, MinPrice)

\* C13 (empty input and zero budget yield zero totals): a call with an empty
\* category list, or with budget 0, returns with totalSpent 0 and
\* totalUtility 0, under every registered algorithm.
ZeroTotals ==
  (result.called /\ (Len(result.input) = 0 \/ budget = 0)) =>
    /\ result.returned
    /\ result.totalSpent = 0
    /\ result.totalUtility = 0

\* C14 (per-allocation utility follows the utility function): in every
\* returned result, under every registered algorithm, the utility of each
\* allocation is calculateUtility of its category and quantity; so an
\* allocation with quantity 0 of a category with necessityLevel above 5 has
\* utility -1000 * necessityLevel.
AllocationUtility ==
  Done =>
    \A i \in 1..Len(result.allocations) :
      LET a == result.allocations[i]
      IN a.utility = calculateUtility(a.category, a.quantity)

\* The necessity levels a category list is given in place of its own.
NecessityLevels == {1, 5, 10}

\* The categories cats with the necessity levels nl, all else the same.
WithNecessityLevels(cats, nl) ==
  [i \in 1..Len(cats) |-> [cats[i] EXCEPT !.necessityLevel = nl[i]]]

\* What the allocations spent on the category named nm.
SpentIn(allocations, nm) ==
  SumSeq([i \in 1..Len(allocations) |->
            IF allocations[i].category.name = nm
              THEN allocations[i].spent ELSE 0])

\* C15 (Pure Utility ignores necessity for purchases): Pure Utility returns
\* the same quantity and spent for every category when it is called with the
\* same budget and with categories that differ from those of the call in
\* their necessityLevel values only.
NecessityIgnored ==
  (Done /\ result.algorithm = "PureUtility") =>
    \A nl \in [1..Len(result.input) -> NecessityLevels] :
      \E other \in {PureUtility(WithNecessityLevels(result.input, nl), budget)} :
        /\ other.returned
        /\ \A i \in 1..Len(result.input) :
             /\ QuantityIn(other.allocations, result.input[i].name)
                  = QuantityIn(result.allocations, result.input[i].name)
             /\ SpentIn(other.allocations, result.input[i].name)
                  = SpentIn(result.allocations, result.input[i].name)

\* The categories the optimizer searches over (priced, useful, needed).
Useful(category) ==
  category.price > 0 /\ category.utilityFactor > 0 /\ category.basicNeedAmount > 0

UsefulAllocations(cats) ==
  SelectSeq([i \in 1..Len(cats) |-> NewAllocation(cats[i])],
            LAMBDA a : Useful(a.category))

\* What it costs to give every category of the allocations its basicNeedAmount.
NeedsCost(allocations) ==
  SumSeq([i \in 1..Len(allocations) |->
            Mul(allocations[i].category.basicNeedAmount,
                allocations[i].category.price)])

\* lambda is within the search tolerance of a value at which the implied
\* quantities cost exactly the budget (the cost never falls as lambda grows).
ExhaustsBudget(allocations, lambda, b) ==
  /\ CostAt(allocations, lambda - BUDGET_TOLERANCE) <= b
  /\ b <= CostAt(allocations, lambda + BUDGET_TOLERANCE)

\* C16 (direct solve exhausts the budget): when the optimizer is called with a
\* positive budget and at least one category of positive price, utilityFactor
\* and basicNeedAmount, the lambda of findOptimalMarginalUtility makes the
\* implied quantities cost the budget, within the search tolerance, if the
\* budget is smaller than the cost of every such category's basicNeedAmount;
\* otherwise every such category receives exactly its basicNeedAmount.
DirectSolveExhaustsBudget ==
  (Done /\ result.algorithm = "MarginalUtilityOptimizer" /\ budget > 0
        /\ Len(UsefulAllocations(result.input)) > 0) =>
    \E ua \in {UsefulAllocations(result.input)} :
      IF budget < NeedsCost(ua)
        THEN ExhaustsBudget(ua, findOptimalMarginalUtility(ua, budget), budget)
        ELSE \A i \in 1..Len(result.allocations) :
               Useful(result.allocations[i].category) =>
                 result.allocations[i].quantity
                   = result.allocations[i].category.basicNeedAmount

\* The quantity of the evaluation has reached the basic need.
BeyondNeed == measured.called /\ measured.quantity >= measured.category.basicNeedAmount

\* At the extreme diminishing factors: flat marginal utility (factor 1), no
\* utility from excess (factor 0).
ExtremeFactors ==
  /\ measured.category.diminishingFactor = 1 * S =>
       measured.next - measured.utility = measured.category.utilityFactor
  /\ measured.category.diminishingFactor = 0 =>
       measured.utility
         = Mul(measured.category.utilityFactor * measured.category.necessityLevel,
               measured.category.basicNeedAmount)

\* C17 as stated (utility beyond basic need at the extreme diminishing
\* factors): for every category and every whole quantity q >= basicNeedAmount,
\* with diminishingFactor 1 one more unit adds exactly utilityFactor, and
\* with diminishingFactor 0 the utility is utilityFactor * necessityLevel *
\* basicNeedAmount.
ExtremeFactorsEverywhere == BeyondNeed => ExtremeFactors

\* C17 (utility beyond basic need at the extreme diminishing factors): the
\* same, for every whole quantity q >= basicNeedAmount except quantity 0 of a
\* category with necessityLevel > 5, where calculateUtility returns the
\* penalty -1000 * necessityLevel.
ExtremeFactorsPastPenalty ==
  (BeyondNeed /\ (measured.quantity # 0 \/ measured.category.necessityLevel <= 5))
    => ExtremeFactors

\* A fractional basic need exceeded at diminishing factor 0 by a category of
\* high necessity.
ExtremeFactorsCase ==
  /\ measured.called
  /\ measured.category.diminishingFactor = 0
  /\ measured.category.necessityLevel > 5
  /\ measured.category.basicNeedAmount = 250
  /\ measured.quantity = 3 * S
  /\ measured.utility = Mul(measured.category.utilityFactor * measured.category.necessityLevel, 250)

\* The message gives the number of buckets ("Allocated using N utility
\* buckets ...").
StatesBucketCount(message) ==
  message.kind \in {"buckets", "buckets, basic needs first"}

\* The message names the fulfilment policy ("..., prioritizing basic needs").
StatesPolicy(message) == message.kind = "buckets, basic needs first"

\* C18 (bucket and proportional strategies report their policy): every call
\* of Simple Proportions and of Bucket Utility Smoothing, the calls with no
\* categories, with no budget and with free categories only included, returns
\* a message that states the number of buckets used and the fulfilment policy
\* applied.
PolicyReported ==
  (result.called /\ result.algorithm \in {"SimpleProportions",
       "BucketUtilitySmoothing", "BucketUtilitySmoothingBasicNeeds"}) =>
    /\ result.returned
    /\ StatesBucketCount(result.message)
    /\ StatesPolicy(result.message)

\* The allocations and the remaining budget at the end of the needs pass of
\* Priority Necessity.
NeedsPassOf(cats, b) == NeedsPass(PrioritySort(cats).sorted, 1, b, <<>>, 0)

\* What the first k allocations spent.
SpentByFirst(allocations, k) == SumSeq([i \in 1..k |-> allocations[i].spent])

\* Category a is visited before category b: higher necessityLevel, or the
\* same level and a utilityFactor / price that is not smaller.
VisitedBefore(a, b) ==
  \/ a.necessityLevel > b.necessityLevel
  \/ /\ a.necessityLevel = b.necessityLevel
     /\ DivJS(a.utilityFactor, a.price) >= DivJS(b.utilityFactor, b.price)

\* The turn of an allocation that began with the budget before: whole units,
\* each bought while the quantity was below the basic need and the budget
\* covered the price, until one of the two stopped it.
TurnOf(a, before) ==
  /\ a.quantity % S = 0
  /\ a.quantity >= 0
  /\ a.spent = Mul(a.quantity, a.category.price)
  /\ before - a.spent >= 0
  /\ a.quantity <= Ceil(a.category.basicNeedAmount)
  /\ a.quantity > 0 => a.quantity - 1 * S < a.category.basicNeedAmount
  /\ \/ a.quantity >= a.category.basicNeedAmount
     \/ a.category.price > before - a.spent

\* C19 (the needs pass of Priority Necessity is a strict sequential
\* draw-down): the priced categories are visited in descending necessityLevel,
\* ties in descending utilityFactor / price; each buys whole units only while
\* its quantity is below basicNeedAmount and the remaining budget covers its
\* price, so after the pass every category has its basicNeedAmount or a price
\* above the budget that remained when its turn ended, none holds more than
\* ceil(basicNeedAmount) units, and each category draws on what the turns of
\* all earlier categories left.
SequentialDrawDown ==
  (Done /\ result.algorithm = "PriorityNecessity") =>
    \E pass \in {NeedsPassOf(result.input, budget)} :
      /\ Len(pass.allocations)
           = Cardinality({i \in 1..Len(result.input) : result.input[i].price > 0})
      /\ \A k \in 1..Len(pass.allocations) :
           /\ \A j \in 1..(k - 1) :
                VisitedBefore(pass.allocations[j].category,
                              pass.allocations[k].category)
           /\ TurnOf(pass.allocations[k],
                     budget - SpentByFirst(pass.allocations, k - 1))
      /\ pass.remainingBudget
           = budget - SpentByFirst(pass.allocations, Len(pass.allocations))

\* C19: a call in which the first category visited took its whole basic need
\* and the second took units until the budget no longer covered its price.
SequentialDrawDownCase ==
  /\ Done
  /\ result.algorithm = "PriorityNecessity"
  /\ \E pass \in {NeedsPassOf(result.input, budget)} :
       /\ Len(pass.allocations) >= 2
       /\ pass.allocations[1].quantity >= pass.allocations[1].category.basicNeedAmount
       /\ pass.allocations[1].quantity > 0
       /\ pass.allocations[2].quantity > 0
       /\ pass.allocations[2].quantity < pass.allocations[2].category.basicNeedAmount
       /\ pass.allocations[2].category.price > pass.remainingBudget

\* The marginal utility per cost of one more unit for an allocation.
UtilityPerCost(a) ==
  DivJS(calculateUtility(a.category, a.quantity + 1 * S)
          - calculateUtility(a.category, a.quantity),
        a.category.price)

\* The allocations one more unit of which is a purchase the surplus pass may
\* make with the budget r: affordable, of strictly positive marginal utility
\* per cost, and of the highest among the affordable ones.
BestPurchases(allocations, r) ==
  { i \in 1..Len(allocations) :
      /\ allocations[i].category.price <= r
      /\ UtilityPerCost(allocations[i]) > 0
      /\ \A j \in 1..Len(allocations) :
           allocations[j].category.price <= r =>
             UtilityPerCost(allocations[i]) >= UtilityPerCost(allocations[j]) }

\* The quantities and amounts spent of two allocation arrays are the same.
SamePurchases(a, b) ==
  /\ Len(a) = Len(b)
  /\ \A i \in 1..Len(a) : a[i].quantity = b[i].quantity /\ a[i].spent = b[i].spent

\* final is reached from the allocations and the budget r by purchases of one
\* unit each, every one of them a best purchase, and no purchase is possible
\* at final.
RECURSIVE GreedyPurchases(_, _, _)
GreedyPurchases(allocations, r, final) ==
  IF SamePurchases(allocations, final)
    THEN ~(r > 0) \/ BestPurchases(allocations, r) = {}
  ELSE /\ r > 0
       /\ \E i \in BestPurchases(allocations, r) :
            GreedyPurchases(
              [allocations EXCEPT
                 ![i].quantity = @ + 1 * S,
                 ![i].spent = @ + allocations[i].category.price],
              r - allocations[i].category.price, final)

\* The number of units the allocations hold, as a whole number.
Units(allocations) ==
  SumSeq([i \in 1..Len(allocations) |-> allocations[i].quantity]) \div S

\* The lowest price among the allocations' categories.
RECURSIVE MinPriceOf(_, _)
MinPriceOf(allocations, i) ==
  IF i = 0 THEN Inf
  ELSE Min(MinPriceOf(allocations, i - 1), allocations[i].category.price)

\* C20 (the surplus pass of Priority Necessity terminates and stops on no
\* gain): from the budget R the needs pass left, the surplus loop makes at
\* most R / min(price) purchases; each buys exactly one unit of an affordable
\* category whose marginal utility per cost is strictly positive and the
\* highest among the affordable categories; the loop ends as soon as no
\* affordable category has a positive marginal utility per cost, whatever is
\* left of the budget.
SurplusPass ==
  (result.called /\ result.algorithm = "PriorityNecessity") =>
    /\ result.returned
    /\ \E pass \in {NeedsPassOf(result.input, budget)} :
         /\ GreedyPurchases(pass.allocations, pass.remainingBudget,
                            result.allocations)
         /\ Len(pass.allocations) > 0 =>
              (Units(result.allocations) - Units(pass.allocations))
                 * MinPriceOf(pass.allocations, Len(pass.allocations))
                <= pass.remainingBudget
         /\ result.totalSpent
              = SpentByFirst(result.allocations, Len(result.allocations))

\* C20: a call whose surplus pass bought units and ended with budget left
\* that covers the price of a category.
SurplusPassCase ==
  /\ Done
  /\ result.algorithm = "PriorityNecessity"
  /\ \E pass \in {NeedsPassOf(result.input, budget)} :
       /\ Units(result.allocations) - Units(pass.allocations) >= 2
       /\ \E i \in 1..Len(result.allocations) :
            result.allocations[i].category.price <= budget - result.totalSpent

\* The allocations and what is left of the basic-needs budget at the end of
\* phase 1 of Balanced Approach.
BasicNeedsPhaseOf(cats, b) ==
  BasicNeedsPhase(
    SortBy([i \in 1..Len(cats) |-> i],
           LAMBDA x, y : (cats[y].necessityLevel - cats[x].necessityLevel) * S),
    1, [i \in 1..Len(cats) |-> NewAllocation(cats[i])],
    Mul(b, basicNeedsBudgetRatio), 0)

\* Phase 1 spends at most the basic-needs pool, gives each priced category at
\* most its basicNeedAmount for at most necessityLevel/10 of the pool, and
\* leaves the pool less what it spent.
SplitOf(phase1, b) ==
  /\ SpentByFirst(phase1.allocations, Len(phase1.allocations))
       <= Mul(b, basicNeedsBudgetRatio)
  /\ phase1.remainingBasicBudget
       = Mul(b, basicNeedsBudgetRatio)
           - SpentByFirst(phase1.allocations, Len(phase1.allocations))
  /\ \A i \in 1..Len(phase1.allocations) :
       /\ phase1.allocations[i].quantity >= 0
       /\ phase1.allocations[i].quantity
            <= phase1.allocations[i].category.basicNeedAmount
       /\ phase1.allocations[i].spent
            <= Mul(Mul(b, basicNeedsBudgetRatio),
                   (phase1.allocations[i].category.necessityLevel * S) \div 10)

RegularCategories(cats) == SelectSeq(cats, LAMBDA c : ~(c.price <= 0))

BucketsOf(cats) ==
  MakeBuckets(SortBy(WithUtilityPerDollar(RegularCategories(cats)),
                     UtilityPerDollarOrder), NUM_BUCKETS_BASIC_NEEDS)

\* The rank of the bucket that holds the category (1 is the highest).
BucketIndexOf(buckets, category) ==
  CHOOSE x \in 1..Len(buckets) :
    \E k \in 1..Len(buckets[x]) : buckets[x][k].category = category

\* What all basic needs of the priced categories cost.
TotalBasicNeedsCost(cats) ==
  SumSeq([i \in 1..Len(RegularCategories(cats)) |->
            BasicNeedCost(RegularCategories(cats)[i])])

\* A call of the five-bucket class with a budget that does not cover the
\* basic needs of the priced categories.
Scarcity ==
  /\ Done
  /\ result.algorithm = "BucketUtilitySmoothingBasicNeeds"
  /\ budget > 0
  /\ Len(RegularCategories(result.input)) > 0
  /\ budget < TotalBasicNeedsCost(result.input)

\* C22 (bucket-by-bucket priority): when the budget is smaller than the cost
\* of all basic needs, a category in a lower-ranked bucket has spent > 0 only
\* if every category in every higher-ranked bucket has its full basic need
\* (quantity = basicNeedAmount).
BucketPriority ==
  Scarcity =>
    \E buckets \in {BucketsOf(result.input)} :
      \A i, j \in 1..Len(result.allocations) :
        (/\ result.allocations[i].category.price > 0
         /\ result.allocations[j].category.price > 0
         /\ BucketIndexOf(buckets, result.allocations[i].category)
              < BucketIndexOf(buckets, result.allocations[j].category)
         /\ result.allocations[j].spent > 0)
        => result.allocations[i].quantity
             = result.allocations[i].category.basicNeedAmount

\* The utility of a category's basic need per unit of its cost.
BasicNeedEfficiency(category) ==
  DivJS(calculateUtility(category, category.basicNeedAmount),
        BasicNeedCost(category))

\* The allocations of the priced categories.
PricedAllocations(allocations) ==
  SelectSeq(allocations, LAMBDA a : a.category.price > 0)

\* A category is funded only when every category of higher efficiency has
\* its basic-need cost; one category at most is left between nothing and its
\* basic need; none is above its basic need; the budget is spent.
FundedByEfficiency(priced, b, totalSpent) ==
  /\ \A i, j \in 1..Len(priced) :
       (/\ Gt(BasicNeedEfficiency(priced[i].category),
              BasicNeedEfficiency(priced[j].category))
        /\ priced[j].spent > 0)
       => priced[i].spent = BasicNeedCost(priced[i].category)
  /\ Cardinality({i \in 1..Len(priced) :
                    /\ priced[i].quantity > 0
                    /\ priced[i].quantity < priced[i].category.basicNeedAmount})
       <= 1
  /\ \A i \in 1..Len(priced) :
       priced[i].quantity <= priced[i].category.basicNeedAmount
  /\ totalSpent = b

\* A call of the five-bucket class with a budget that covers the basic needs
\* of the priced categories.
Sufficiency ==
  /\ Done
  /\ result.algorithm = "BucketUtilitySmoothingBasicNeeds"
  /\ budget > 0
  /\ Len(RegularCategories(result.input)) > 0
  /\ budget >= TotalBasicNeedsCost(result.input)

\* C29 (Bucket Utility Smoothing under scarcity): when 0 < budget < the cost
\* of the basic needs of the priced categories, these are funded in descending
\* basic-need efficiency, each with its basic-need cost or what is left, so
\* that at most one ends with 0 < quantity < basicNeedAmount, none exceeds
\* basicNeedAmount and totalSpent = budget; when the budget covers the cost,
\* every priced category has exactly basicNeedAmount and the rest is unspent.
ScarcityFunding ==
  /\ Scarcity =>
       FundedByEfficiency(PricedAllocations(result.allocations), budget,
                          result.totalSpent)
  /\ Sufficiency =>
       /\ \A i \in 1..Len(result.allocations) :
            result.allocations[i].category.price > 0 =>
              result.allocations[i].quantity
                = result.allocations[i].category.basicNeedAmount
       /\ result.totalSpent = TotalBasicNeedsCost(result.input)

\* C23: the binary search of findOptimalMarginalUtility ends after finitely
\* many iterations, and the interval [low, high] strictly shrinks on every
\* iteration of its loop.
IntervalShrinks ==
  [][search'.iterations > search.iterations /\ ~search'.returned
       => search'.high - search'.low < search.high - search.low]_vars

\* C24: after applyNoDiminishingReturnsModel every category has, at every
\* whole quantity q from its basic need on, the constant marginal utility
\* calculateUtility(c, q + 1) - calculateUtility(c, q) = utilityFactor.
NoDiminishingReturns ==
  call.handler = "applyNoDiminishingReturnsModel" =>
    \A i \in 1..Len(app.categories) :
      \A q \in Quantities :
        q >= app.categories[i].basicNeedAmount =>
          SubJS(calculateUtility(app.categories[i], q + 1 * S),
                calculateUtility(app.categories[i], q))
            = app.categories[i].utilityFactor

\* C28: whatever handlers ran before, applyKowalskiScenario sets categories
\* to the original list of the scenario and resetToDefault sets categories to
\* the original default list.
FixturesRestored ==
  /\ call.handler = "applyKowalskiScenario" =>
       app.categories = KowalskiCategories
  /\ call.handler = "resetToDefault" => app.categories = DefaultCategories

\* The books of Priority Necessity balance: nothing is overdrawn, every
\* allocation holds whole units and has spent their price, and what left the
\* budget b is what the allocations spent.
Bookkeeping(allocations, remainingBudget, b) ==
  /\ remainingBudget >= 0
  /\ \A i \in 1..Len(allocations) :
       /\ allocations[i].quantity >= 0
       /\ allocations[i].quantity % S = 0
       /\ allocations[i].spent
            = Mul(allocations[i].quantity, allocations[i].category.price)
  /\ b - remainingBudget = SpentByFirst(allocations, Len(allocations))

\* Nothing is overdrawn while a category's turn of the needs pass buys the
\* units of allocation a one by one, from the budget before.
TurnBookkeeping(a, before) ==
  \A units \in 0..(a.quantity \div S) :
    before - units * a.category.price >= 0

\* The books balance after the turn of each category of the needs pass.
NeedsPassBookkeeping(sorted, b) ==
  \A k \in 0..Len(sorted) :
    \E pass \in {NeedsPass(SubSeq(sorted, 1, k), 1, b, <<>>, 0)} :
      /\ Bookkeeping(pass.allocations, pass.remainingBudget, b)
      /\ \A i \in 1..Len(pass.allocations) :
           TurnBookkeeping(pass.allocations[i],
                           b - SpentByFirst(pass.allocations, i - 1))

\* The books balance in the state s of the surplus loop and after each of
\* its iterations from there.
RECURSIVE SurplusBookkeeping(_, _, _)
SurplusBookkeeping(s, b, iter) ==
  /\ Bookkeeping(s.allocations, s.remainingBudget, b)
  /\ IF s.broke \/ ~(s.remainingBudget > 0) \/ iter >= MaxLoop THEN TRUE
     ELSE SurplusBookkeeping(GreedyStep(s), b, iter + 1)

SameAsExportedFunction ==
  (result.called /\ result.algorithm = "PriorityNecessity") =>
    \E legacy \in {economyModelCalculateOptimalSpending(result.input, budget)} :
      /\ legacy.returned = result.returned
      /\ legacy.allocations = result.allocations
      /\ legacy.totalUtility = result.totalUtility
      /\ legacy.totalSpent = result.totalSpent
      /\ legacy.message = result.message

\* Both passes of the two bought for two categories, and a need stayed unmet.
SameAsExportedFunctionCase ==
  /\ result.called /\ result.algorithm = "PriorityNecessity"
  /\ Len(result.allocations) = 2
  /\ result.allocations[1].quantity > result.allocations[1].category.basicNeedAmount
  /\ result.allocations[2].quantity > 0
  /\ result.message.kind = "unmet"
  /\ economyModelCalculateOptimalSpending(result.input, budget).totalSpent > 0

NeedCap(category) ==
  IF category.basicNeedAmount # 0 THEN category.basicNeedAmount ELSE 1 * S

\* The allocations of the categories with a price.
Priced(allocations) == SelectSeq(allocations, LAMBDA a : a.category.price > 0)

\* A call of the Flat Time Pure Utility Maximizer with budget > 0 and at
\* least one category with a price.
FlatTimeCall ==
  /\ result.called /\ result.algorithm = "FlatTimeUtilityMaximisation"
  /\ budget > 0
  /\ Priced(result.allocations) # <<>>

\* Either the whole budget is spent or every priced category is at its cap.
FillsOrSpendsAll ==
  \/ result.totalSpent = budget
  \/ \A i \in 1..Len(Priced(result.allocations)) :
       Priced(result.allocations)[i].quantity
         = NeedCap(Priced(result.allocations)[i].category)

RoundingSteps(category) == Len(levels) + (3 * category.price) \div S + 1

\* What adding up the increments of the levels can be off by: one step for
\* each level.
SumSteps == Len(levels)

====
